---- MODULE Spec2Model ----
(***************************************************************************)
(* Asset pipeline of the greenkeeper simulator: the asset specification    *)
(* registry (tools/blender/asset_specs.py), the validation rules and the   *)
(* two export gates (tools/blender/export_glb.py and                       *)
(* tools/blender/generators/_common/context.py).                           *)
(*                                                                         *)
(* Lengths are integers in millimetres: every number of ASSET_SPECS is a   *)
(* whole number of millimetres, 0.01 is 10 and 0.05 is 50.  Comparisons    *)
(* are those of the code in exact arithmetic: w > max_w * 1.1 is           *)
(* 10 * w > 11 * max_w.  The binary rounding of the float 1.1 (a           *)
(* threshold at most one unit in the last place above the exact product)   *)
(* is below the resolution of the model.                                   *)
(*                                                                         *)
(* Objects are unrotated and unscaled: matrix_world is the translation by  *)
(* the object's location.                                                  *)
(***************************************************************************)
EXTENDS Integers, Sequences, FiniteSets, TLC

VARIABLES
    scene,      \* the objects of the Blender file, in iteration order
    actions,    \* names of bpy.data.actions
    call,       \* the operation being run and its arguments
    errors,     \* the violation list the operation built
    log,        \* what the operation reported and handed to the encoder, in order
    result,     \* how the operation ended
    random_state, \* state of the hidden generator behind the functions of the random module
    registry_writes \* the entries assigned to the dict ASSET_SPECS since asset_specs was imported

vars == <<scene, actions, call, errors, log, result, random_state, registry_writes>>

(***************************************************************************)
(* asset_specs.py: the registry.  A spec without "required_animations" is  *)
(* read with spec.get("required_animations", []) and carries <<>> here;    *)
(* "notes" has no semantics and is left out.                               *)
(***************************************************************************)
ASSET_SPECS ==
    ("character.greenkeeper" :> [height_range |-> <<1750, 1850>>, footprint |-> <<500, 500>>, origin |-> "base_center", required_animations |-> <<"idle", "walk", "push">>])
 @@ ("character.employee" :> [height_range |-> <<1700, 1850>>, footprint |-> <<500, 500>>, origin |-> "base_center", required_animations |-> <<"idle", "walk", "push">>])
 @@ ("character.golfer.male" :> [height_range |-> <<1700, 1850>>, footprint |-> <<500, 500>>, origin |-> "base_center", required_animations |-> <<"idle", "walk", "swing">>])
 @@ ("character.golfer.female" :> [height_range |-> <<1600, 1750>>, footprint |-> <<500, 500>>, origin |-> "base_center", required_animations |-> <<"idle", "walk", "swing">>])
 @@ ("tree.pine.small" :> [height_range |-> <<3000, 4000>>, footprint |-> <<1500, 1500>>, origin |-> "base_center", required_animations |-> <<>>])
 @@ ("tree.pine.medium" :> [height_range |-> <<5000, 7000>>, footprint |-> <<2500, 2500>>, origin |-> "base_center", required_animations |-> <<>>])
 @@ ("tree.pine.large" :> [height_range |-> <<8000, 12000>>, footprint |-> <<4000, 4000>>, origin |-> "base_center", required_animations |-> <<>>])
 @@ ("tree.oak.small" :> [height_range |-> <<3000, 5000>>, footprint |-> <<2000, 2000>>, origin |-> "base_center", required_animations |-> <<>>])
 @@ ("tree.oak.medium" :> [height_range |-> <<6000, 9000>>, footprint |-> <<4000, 4000>>, origin |-> "base_center", required_animations |-> <<>>])
 @@ ("tree.oak.large" :> [height_range |-> <<10000, 15000>>, footprint |-> <<6000, 6000>>, origin |-> "base_center", required_animations |-> <<>>])
 @@ ("tree.palm" :> [height_range |-> <<4000, 8000>>, footprint |-> <<1000, 1000>>, origin |-> "base_center", required_animations |-> <<>>])
 @@ ("tree.willow" :> [height_range |-> <<5000, 8000>>, footprint |-> <<4000, 4000>>, origin |-> "base_center", required_animations |-> <<>>])
 @@ ("tree.cypress" :> [height_range |-> <<6000, 12000>>, footprint |-> <<1500, 1500>>, origin |-> "base_center", required_animations |-> <<>>])
 @@ ("tree.maple.small" :> [height_range |-> <<3000, 5000>>, footprint |-> <<2000, 2000>>, origin |-> "base_center", required_animations |-> <<>>])
 @@ ("tree.maple.medium" :> [height_range |-> <<6000, 9000>>, footprint |-> <<4000, 4000>>, origin |-> "base_center", required_animations |-> <<>>])
 @@ ("tree.birch" :> [height_range |-> <<5000, 8000>>, footprint |-> <<2000, 2000>>, origin |-> "base_center", required_animations |-> <<>>])
 @@ ("tree.magnolia" :> [height_range |-> <<4000, 7000>>, footprint |-> <<3000, 3000>>, origin |-> "base_center", required_animations |-> <<>>])
 @@ ("tree.dogwood" :> [height_range |-> <<3000, 5000>>, footprint |-> <<2500, 2500>>, origin |-> "base_center", required_animations |-> <<>>])
 @@ ("shrub.hedge" :> [height_range |-> <<800, 1500>>, footprint |-> <<1000, 1000>>, origin |-> "base_center", required_animations |-> <<>>])
 @@ ("shrub.hedge.tall" :> [height_range |-> <<1800, 2500>>, footprint |-> <<1000, 1000>>, origin |-> "base_center", required_animations |-> <<>>])
 @@ ("shrub.flowering.azalea" :> [height_range |-> <<600, 1200>>, footprint |-> <<1000, 1000>>, origin |-> "base_center", required_animations |-> <<>>])
 @@ ("shrub.flowering.rhododendron" :> [height_range |-> <<1000, 2000>>, footprint |-> <<1500, 1500>>, origin |-> "base_center", required_animations |-> <<>>])
 @@ ("shrub.ornamental.grass" :> [height_range |-> <<500, 1200>>, footprint |-> <<800, 800>>, origin |-> "base_center", required_animations |-> <<>>])
 @@ ("shrub.juniper" :> [height_range |-> <<400, 800>>, footprint |-> <<1500, 1500>>, origin |-> "base_center", required_animations |-> <<>>])
 @@ ("flower.bed.mixed" :> [height_range |-> <<200, 400>>, footprint |-> <<1000, 1000>>, origin |-> "base_center", required_animations |-> <<>>])
 @@ ("flower.bed.roses" :> [height_range |-> <<500, 1000>>, footprint |-> <<1000, 1000>>, origin |-> "base_center", required_animations |-> <<>>])
 @@ ("flower.planter" :> [height_range |-> <<600, 800>>, footprint |-> <<500, 500>>, origin |-> "base_center", required_animations |-> <<>>])
 @@ ("equipment.mower.push" :> [height_range |-> <<800, 1200>>, footprint |-> <<500, 800>>, origin |-> "base_center", required_animations |-> <<>>])
 @@ ("equipment.spreader" :> [height_range |-> <<800, 1100>>, footprint |-> <<500, 600>>, origin |-> "base_center", required_animations |-> <<>>])
 @@ ("equipment.sprinkler.handheld" :> [height_range |-> <<300, 500>>, footprint |-> <<200, 800>>, origin |-> "base_center", required_animations |-> <<>>])
 @@ ("equipment.rake" :> [height_range |-> <<1400, 1600>>, footprint |-> <<400, 100>>, origin |-> "base_center", required_animations |-> <<>>])
 @@ ("equipment.aerator.manual" :> [height_range |-> <<900, 1100>>, footprint |-> <<300, 300>>, origin |-> "base_center", required_animations |-> <<>>])
 @@ ("equipment.trimmer" :> [height_range |-> <<1000, 1300>>, footprint |-> <<300, 300>>, origin |-> "base_center", required_animations |-> <<>>])
 @@ ("equipment.blower" :> [height_range |-> <<400, 600>>, footprint |-> <<300, 500>>, origin |-> "base_center", required_animations |-> <<>>])
 @@ ("equipment.edger" :> [height_range |-> <<900, 1100>>, footprint |-> <<200, 400>>, origin |-> "base_center", required_animations |-> <<>>])
 @@ ("vehicle.mower.riding" :> [height_range |-> <<1200, 1600>>, footprint |-> <<1200, 2000>>, origin |-> "base_center", required_animations |-> <<>>])
 @@ ("vehicle.mower.fairway" :> [height_range |-> <<1400, 1800>>, footprint |-> <<2000, 3000>>, origin |-> "base_center", required_animations |-> <<>>])
 @@ ("vehicle.mower.greens" :> [height_range |-> <<1000, 1400>>, footprint |-> <<1000, 1800>>, origin |-> "base_center", required_animations |-> <<>>])
 @@ ("vehicle.cart.golf" :> [height_range |-> <<1600, 1900>>, footprint |-> <<1200, 2400>>, origin |-> "base_center", required_animations |-> <<>>])
 @@ ("vehicle.cart.utility" :> [height_range |-> <<1400, 1800>>, footprint |-> <<1300, 2800>>, origin |-> "base_center", required_animations |-> <<>>])
 @@ ("vehicle.tractor" :> [height_range |-> <<2000, 2500>>, footprint |-> <<1800, 3500>>, origin |-> "base_center", required_animations |-> <<>>])
 @@ ("vehicle.aerator.ride" :> [height_range |-> <<1400, 1800>>, footprint |-> <<1500, 2500>>, origin |-> "base_center", required_animations |-> <<>>])
 @@ ("vehicle.sprayer" :> [height_range |-> <<1500, 2000>>, footprint |-> <<1500, 3000>>, origin |-> "base_center", required_animations |-> <<>>])
 @@ ("irrigation.pipe.straight" :> [height_range |-> <<100, 200>>, footprint |-> <<1000, 200>>, origin |-> "base_center", required_animations |-> <<>>])
 @@ ("irrigation.pipe.corner" :> [height_range |-> <<100, 200>>, footprint |-> <<500, 500>>, origin |-> "base_center", required_animations |-> <<>>])
 @@ ("irrigation.pipe.tee" :> [height_range |-> <<100, 200>>, footprint |-> <<1000, 500>>, origin |-> "base_center", required_animations |-> <<>>])
 @@ ("irrigation.pipe.cross" :> [height_range |-> <<100, 200>>, footprint |-> <<1000, 1000>>, origin |-> "base_center", required_animations |-> <<>>])
 @@ ("irrigation.sprinkler.popup" :> [height_range |-> <<50, 150>>, footprint |-> <<150, 150>>, origin |-> "base_center", required_animations |-> <<>>])
 @@ ("irrigation.sprinkler.rotor" :> [height_range |-> <<100, 200>>, footprint |-> <<200, 200>>, origin |-> "base_center", required_animations |-> <<>>])
 @@ ("irrigation.valve.box" :> [height_range |-> <<100, 150>>, footprint |-> <<400, 300>>, origin |-> "base_center", required_animations |-> <<>>])
 @@ ("irrigation.water.source" :> [height_range |-> <<400, 600>>, footprint |-> <<600, 600>>, origin |-> "base_center", required_animations |-> <<>>])
 @@ ("irrigation.water.tank" :> [height_range |-> <<1500, 2000>>, footprint |-> <<1500, 1500>>, origin |-> "base_center", required_animations |-> <<>>])
 @@ ("course.flag" :> [height_range |-> <<2000, 2500>>, footprint |-> <<100, 100>>, origin |-> "base_center", required_animations |-> <<>>])
 @@ ("course.cup" :> [height_range |-> <<100, 150>>, footprint |-> <<120, 120>>, origin |-> "base_center", required_animations |-> <<>>])
 @@ ("course.tee.marker.red" :> [height_range |-> <<150, 250>>, footprint |-> <<100, 100>>, origin |-> "base_center", required_animations |-> <<>>])
 @@ ("course.tee.marker.white" :> [height_range |-> <<150, 250>>, footprint |-> <<100, 100>>, origin |-> "base_center", required_animations |-> <<>>])
 @@ ("course.tee.marker.blue" :> [height_range |-> <<150, 250>>, footprint |-> <<100, 100>>, origin |-> "base_center", required_animations |-> <<>>])
 @@ ("course.tee.marker.gold" :> [height_range |-> <<150, 250>>, footprint |-> <<100, 100>>, origin |-> "base_center", required_animations |-> <<>>])
 @@ ("course.yardage.marker.100" :> [height_range |-> <<300, 500>>, footprint |-> <<200, 200>>, origin |-> "base_center", required_animations |-> <<>>])
 @@ ("course.yardage.marker.150" :> [height_range |-> <<300, 500>>, footprint |-> <<200, 200>>, origin |-> "base_center", required_animations |-> <<>>])
 @@ ("course.yardage.marker.200" :> [height_range |-> <<300, 500>>, footprint |-> <<200, 200>>, origin |-> "base_center", required_animations |-> <<>>])
 @@ ("course.ball" :> [height_range |-> <<40, 50>>, footprint |-> <<40, 40>>, origin |-> "center", required_animations |-> <<>>])
 @@ ("course.bunker.rake" :> [height_range |-> <<1400, 1600>>, footprint |-> <<400, 100>>, origin |-> "base_center", required_animations |-> <<>>])
 @@ ("amenity.bench" :> [height_range |-> <<800, 1000>>, footprint |-> <<1500, 600>>, origin |-> "base_center", required_animations |-> <<>>])
 @@ ("amenity.trash.bin" :> [height_range |-> <<900, 1100>>, footprint |-> <<500, 500>>, origin |-> "base_center", required_animations |-> <<>>])
 @@ ("amenity.ball.washer" :> [height_range |-> <<900, 1100>>, footprint |-> <<300, 300>>, origin |-> "base_center", required_animations |-> <<>>])
 @@ ("amenity.drinking.fountain" :> [height_range |-> <<900, 1100>>, footprint |-> <<400, 400>>, origin |-> "base_center", required_animations |-> <<>>])
 @@ ("amenity.cooler" :> [height_range |-> <<800, 1000>>, footprint |-> <<400, 400>>, origin |-> "base_center", required_animations |-> <<>>])
 @@ ("amenity.shelter.small" :> [height_range |-> <<2500, 3000>>, footprint |-> <<3000, 3000>>, origin |-> "base_center", required_animations |-> <<>>])
 @@ ("amenity.restroom" :> [height_range |-> <<2800, 3500>>, footprint |-> <<3000, 4000>>, origin |-> "base_center", required_animations |-> <<>>])
 @@ ("amenity.snack.bar" :> [height_range |-> <<2500, 3000>>, footprint |-> <<4000, 3000>>, origin |-> "base_center", required_animations |-> <<>>])
 @@ ("building.clubhouse.small" :> [height_range |-> <<4000, 6000>>, footprint |-> <<12000, 8000>>, origin |-> "base_center", required_animations |-> <<>>])
 @@ ("building.clubhouse.medium" :> [height_range |-> <<5000, 8000>>, footprint |-> <<20000, 15000>>, origin |-> "base_center", required_animations |-> <<>>])
 @@ ("building.clubhouse.large" :> [height_range |-> <<6000, 10000>>, footprint |-> <<30000, 20000>>, origin |-> "base_center", required_animations |-> <<>>])
 @@ ("building.maintenance.shed" :> [height_range |-> <<3000, 4000>>, footprint |-> <<6000, 8000>>, origin |-> "base_center", required_animations |-> <<>>])
 @@ ("building.cart.barn" :> [height_range |-> <<3000, 4000>>, footprint |-> <<10000, 6000>>, origin |-> "base_center", required_animations |-> <<>>])
 @@ ("building.pump.house" :> [height_range |-> <<2000, 2500>>, footprint |-> <<2500, 2500>>, origin |-> "base_center", required_animations |-> <<>>])
 @@ ("building.starter.hut" :> [height_range |-> <<2500, 3000>>, footprint |-> <<2500, 2500>>, origin |-> "base_center", required_animations |-> <<>>])
 @@ ("decor.rock.small" :> [height_range |-> <<200, 400>>, footprint |-> <<400, 400>>, origin |-> "base_center", required_animations |-> <<>>])
 @@ ("decor.rock.medium" :> [height_range |-> <<500, 800>>, footprint |-> <<800, 800>>, origin |-> "base_center", required_animations |-> <<>>])
 @@ ("decor.rock.large" :> [height_range |-> <<1000, 1500>>, footprint |-> <<1500, 1500>>, origin |-> "base_center", required_animations |-> <<>>])
 @@ ("decor.rock.cluster" :> [height_range |-> <<400, 800>>, footprint |-> <<1500, 1500>>, origin |-> "base_center", required_animations |-> <<>>])
 @@ ("decor.fountain" :> [height_range |-> <<1000, 2000>>, footprint |-> <<2000, 2000>>, origin |-> "base_center", required_animations |-> <<>>])
 @@ ("decor.statue" :> [height_range |-> <<1500, 2500>>, footprint |-> <<800, 800>>, origin |-> "base_center", required_animations |-> <<>>])
 @@ ("decor.sundial" :> [height_range |-> <<800, 1200>>, footprint |-> <<600, 600>>, origin |-> "base_center", required_animations |-> <<>>])
 @@ ("fence.wood.section" :> [height_range |-> <<1000, 1200>>, footprint |-> <<2000, 100>>, origin |-> "base_center", required_animations |-> <<>>])
 @@ ("fence.wood.post" :> [height_range |-> <<1000, 1300>>, footprint |-> <<150, 150>>, origin |-> "base_center", required_animations |-> <<>>])
 @@ ("fence.white.section" :> [height_range |-> <<1000, 1200>>, footprint |-> <<2000, 100>>, origin |-> "base_center", required_animations |-> <<>>])
 @@ ("fence.chain.section" :> [height_range |-> <<1500, 2000>>, footprint |-> <<2000, 100>>, origin |-> "base_center", required_animations |-> <<>>])
 @@ ("fence.rope.post" :> [height_range |-> <<800, 1000>>, footprint |-> <<100, 100>>, origin |-> "base_center", required_animations |-> <<>>])
 @@ ("bridge.wood.small" :> [height_range |-> <<800, 1200>>, footprint |-> <<2000, 4000>>, origin |-> "base_center", required_animations |-> <<>>])
 @@ ("bridge.wood.medium" :> [height_range |-> <<1000, 1500>>, footprint |-> <<3000, 6000>>, origin |-> "base_center", required_animations |-> <<>>])
 @@ ("bridge.stone" :> [height_range |-> <<1200, 2000>>, footprint |-> <<4000, 8000>>, origin |-> "base_center", required_animations |-> <<>>])
 @@ ("path.sign.directional" :> [height_range |-> <<1000, 1400>>, footprint |-> <<300, 300>>, origin |-> "base_center", required_animations |-> <<>>])
 @@ ("path.sign.rules" :> [height_range |-> <<1200, 1600>>, footprint |-> <<500, 100>>, origin |-> "base_center", required_animations |-> <<>>])
 @@ ("water.fountain.aerator" :> [height_range |-> <<100, 200>>, footprint |-> <<500, 500>>, origin |-> "base_center", required_animations |-> <<>>])
 @@ ("water.dock.small" :> [height_range |-> <<300, 500>>, footprint |-> <<2000, 4000>>, origin |-> "base_center", required_animations |-> <<>>])
 @@ ("water.bulkhead.section" :> [height_range |-> <<500, 800>>, footprint |-> <<2000, 300>>, origin |-> "base_center", required_animations |-> <<>>])
 @@ ("wildlife.bird.bath" :> [height_range |-> <<700, 1000>>, footprint |-> <<500, 500>>, origin |-> "base_center", required_animations |-> <<>>])
 @@ ("wildlife.birdhouse" :> [height_range |-> <<300, 400>>, footprint |-> <<200, 200>>, origin |-> "base_center", required_animations |-> <<>>])
 @@ ("wildlife.duck.decoy" :> [height_range |-> <<200, 300>>, footprint |-> <<300, 200>>, origin |-> "base_center", required_animations |-> <<>>])

\* Python's None, as returned by get_spec and the calculate_bounds functions.
None == [none |-> TRUE]

\* ASSET_SPECS.get(asset_id) on the dict as it is now: the literal above
\* overlaid with the entries assigned since.
get_spec(asset_id) ==
    IF asset_id \in DOMAIN registry_writes THEN registry_writes[asset_id]
    ELSE IF asset_id \in DOMAIN ASSET_SPECS THEN ASSET_SPECS[asset_id] ELSE None

(***************************************************************************)
(* validate_dimensions.  A message is a record naming its rule and         *)
(* carrying the values the f-string prints (the {:.2f} rendering of the    *)
(* numbers is not modelled).                                               *)
(***************************************************************************)
\* A mutation of unknown_id_errors: an unknown id is let through.
unknown_id_errors_silent(asset_id) ==
    << >>

unknown_id_errors(asset_id) ==
    << [rule |-> "unknown", asset_id |-> asset_id] >>

\* A mutation of height_errors: the lower bound itself is rejected.
height_errors_strict(spec, height) ==
    LET min_h == spec.height_range[1]
        max_h == spec.height_range[2]
    IN  IF height <= min_h \/ height > max_h
        THEN << [rule |-> "height", height |-> height, min_h |-> min_h, max_h |-> max_h] >>
        ELSE << >>

height_errors(spec, height) ==
    LET min_h == spec.height_range[1]
        max_h == spec.height_range[2]
    IN  IF height < min_h \/ height > max_h
        THEN << [rule |-> "height", height |-> height, min_h |-> min_h, max_h |-> max_h] >>
        ELSE << >>

\* A mutation of footprint_errors: the 10% tolerance is forgotten.
footprint_errors_no_tolerance(spec, width, depth) ==
    LET max_w == spec.footprint[1]
        max_d == spec.footprint[2]
    IN  (IF width > max_w
         THEN << [rule |-> "width", width |-> width, max_w |-> max_w] >>
         ELSE << >>)
        \o
        (IF depth > max_d
         THEN << [rule |-> "depth", depth |-> depth, max_d |-> max_d] >>
         ELSE << >>)

\* width > max_w * 1.1 and depth > max_d * 1.1, in tenths.
footprint_errors(spec, width, depth) ==
    LET max_w == spec.footprint[1]
        max_d == spec.footprint[2]
    IN  (IF 10 * width > 11 * max_w
         THEN << [rule |-> "width", width |-> width, max_w |-> max_w] >>
         ELSE << >>)
        \o
        (IF 10 * depth > 11 * max_d
         THEN << [rule |-> "depth", depth |-> depth, max_d |-> max_d] >>
         ELSE << >>)

validate_dimensions(asset_id, height, width, depth) ==
    LET spec == get_spec(asset_id)
    IN  IF spec = None
        THEN unknown_id_errors(asset_id)
        ELSE height_errors(spec, height) \o footprint_errors(spec, width, depth)

(***************************************************************************)
(* Scene objects.  An object is                                            *)
(*   [name, type, bound_box |-> [min, max], location]                      *)
(* with name a sequence of characters, bound_box the local bounding box    *)
(* (obj.bound_box is its eight corners) and vectors <<x, y, z>>.           *)
(***************************************************************************)
Abs(n) == IF n < 0 THEN -n ELSE n

SetMin(S) == CHOOSE m \in S : \A n \in S : m <= n

SetMax(S) == CHOOSE m \in S : \A n \in S : m >= n

\* obj.matrix_world @ Vector(corner), for the two extreme corners.
world_box(obj) ==
    [min |-> [i \in 1..3 |-> obj.bound_box.min[i] + obj.location[i]],
     max |-> [i \in 1..3 |-> obj.bound_box.max[i] + obj.location[i]]]

\* obj.name.startswith("REF_")
startswith_REF(name) ==
    Len(name) >= 4 /\ SubSeq(name, 1, 4) = <<"R", "E", "F", "_">>

\* str.lower() on the action names of the model.
lower(s) ==
    CASE s \in {"IDLE", "Idle", "idle"} -> "idle"
      [] s \in {"WALK", "Walk", "walk"} -> "walk"
      [] s \in {"PUSH", "Push", "push"} -> "push"
      [] s \in {"SWING", "Swing", "swing"} -> "swing"
      [] s \in {"Swing.001", "swing.001"} -> "swing.001"
      [] OTHER -> s

(***************************************************************************)
(* generators/_common/context.py                                           *)
(***************************************************************************)
setup_asset_context(asset_id) ==
    [asset_id |-> asset_id, spec |-> get_spec(asset_id)]

context_calculate_bounds(obj) ==
    IF obj.type # "MESH"
    THEN None
    ELSE LET b == world_box(obj)
         IN  [min |-> b.min, max |-> b.max,
              width |-> b.max[1] - b.min[1],
              depth |-> b.max[2] - b.min[2],
              height |-> b.max[3] - b.min[3]]

context_validate_asset(context, root_object) ==
    LET spec == context.spec
        bounds == context_calculate_bounds(root_object)
    IN  IF spec = None
        THEN << [rule |-> "unknown", asset_id |-> context.asset_id] >>
        ELSE IF bounds = None
        THEN << [rule |-> "no_mesh"] >>
        ELSE validate_dimensions(context.asset_id, bounds.height, bounds.width, bounds.depth)

\* errors.extend(validate_asset(context, obj)) for obj in mesh_objects
RECURSIVE context_collect_errors(_, _)
context_collect_errors(context, mesh_objects) ==
    IF mesh_objects = << >>
    THEN << >>
    ELSE context_validate_asset(context, Head(mesh_objects))
         \o context_collect_errors(context, Tail(mesh_objects))

RECURSIVE names_of(_)
names_of(objects) ==
    IF objects = << >> THEN << >>
    ELSE << Head(objects).name >> \o names_of(Tail(objects))

\* A mutation of context_blocked: the early return is lost.
context_blocked_never(errs, force) ==
    FALSE

\* if errors: ... if not force: return False
context_blocked(errs, force) ==
    errs # << >> /\ ~force

(***************************************************************************)
(* export_asset, with bpy.data.objects as data_objects, returns            *)
(* [result, errors, log].  The encoder               *)
(* bpy.ops.export_scene.gltf is external: `outcome` is what it does when   *)
(* called, {'FINISHED'}, {'CANCELLED'} or an exception.  Its return value  *)
(* is not read; an exception leaves export_asset through the call.         *)
(* os.makedirs is not modelled.                                            *)
(***************************************************************************)
export_asset_on(data_objects, context, validate, force, outcome) ==
    LET mesh_objects == SelectSeq(data_objects, LAMBDA obj : obj.type = "MESH")
        errs == IF validate THEN context_collect_errors(context, mesh_objects) ELSE << >>
        report == IF errs # << >>
                  THEN << [ev |-> "violations", errors |-> errs] >>
                  ELSE << >>
    IN  IF mesh_objects = << >>
        THEN [result |-> "failure", errors |-> << >>, log |-> << [ev |-> "no_mesh"] >>]
        ELSE IF context_blocked(errs, force)
        THEN [result |-> "failure", errors |-> errs, log |-> report]
        ELSE [result |-> IF outcome = "RAISED" THEN "raised" ELSE "success",
              errors |-> errs,
              log    |-> report \o << [ev |-> "gltf", selection |-> names_of(mesh_objects)] >>]

\* bpy.data.objects is the scene.
export_asset(context, validate, force, outcome) ==
    export_asset_on(scene, context, validate, force, outcome)

(***************************************************************************)
(* export_glb.py                                                           *)
(***************************************************************************)
get_exportable_objects ==
    SelectSeq(scene, LAMBDA obj :
        ~startswith_REF(obj.name) /\ obj.type \in {"MESH", "ARMATURE", "EMPTY"})

\* float('inf'): above every coordinate of the model, in millimetres.
inf == 1000000000

py_min(a, b) == IF b < a THEN b ELSE a

py_max(a, b) == IF b > a THEN b ELSE a

\* The loop over objects: non-mesh objects are skipped, the corners of a
\* mesh widen min_co and max_co.
RECURSIVE calculate_bounds_loop(_, _, _)
calculate_bounds_loop(objects, min_co, max_co) ==
    IF objects = << >>
    THEN [min |-> min_co, max |-> max_co]
    ELSE LET obj == Head(objects)
         IN  IF obj.type # "MESH"
             THEN calculate_bounds_loop(Tail(objects), min_co, max_co)
             ELSE calculate_bounds_loop(Tail(objects),
                      [i \in 1..3 |-> py_min(min_co[i], world_box(obj).min[i])],
                      [i \in 1..3 |-> py_max(max_co[i], world_box(obj).max[i])])

\* A mutation of export_glb_calculate_bounds: the test on min_co[0] after
\* the loop is missing.
export_glb_calculate_bounds_unchecked(objects) ==
    LET b == calculate_bounds_loop(objects, <<inf, inf, inf>>, <<-inf, -inf, -inf>>)
    IN  IF objects = << >>
        THEN None
        ELSE [min |-> b.min, max |-> b.max,
              width |-> b.max[1] - b.min[1],
              depth |-> b.max[2] - b.min[2],
              height |-> b.max[3] - b.min[3]]

\* bpy.mathutils is read as the mathutils module.
export_glb_calculate_bounds(objects) ==
    LET b == calculate_bounds_loop(objects, <<inf, inf, inf>>, <<-inf, -inf, -inf>>)
    IN  IF objects = << >>
        THEN None
        ELSE IF b.min[1] = inf
        THEN None
        ELSE [min |-> b.min, max |-> b.max,
              width |-> b.max[1] - b.min[1],
              depth |-> b.max[2] - b.min[2],
              height |-> b.max[3] - b.min[3]]

no_message == [rule |-> "none"]

\* A mutation of origin_message: a value at the tolerance is rejected.
origin_message_inclusive(obj, origin_type) ==
    LET local_min_z == obj.bound_box.min[3]
        sum_z == 4 * obj.bound_box.min[3] + 4 * obj.bound_box.max[3]
    IN  IF origin_type = "base_center" /\ Abs(local_min_z) >= 10
        THEN [rule |-> "origin", origin_type |-> "base_center", z |-> local_min_z]
        ELSE IF origin_type = "center" /\ Abs(sum_z) >= 8 * 50
        THEN [rule |-> "origin", origin_type |-> "center", z |-> sum_z]
        ELSE [rule |-> "none"]

\* The test check_origin applies to one mesh object; sum(v[2] for v in bbox)
\* runs over four corners at the minimum Z and four at the maximum Z.
origin_message(obj, origin_type) ==
    LET local_min_z == obj.bound_box.min[3]
        sum_z == 4 * obj.bound_box.min[3] + 4 * obj.bound_box.max[3]
    IN  IF origin_type = "base_center" /\ Abs(local_min_z) > 10
        THEN [rule |-> "origin", origin_type |-> "base_center", z |-> local_min_z]
        ELSE IF origin_type = "center" /\ Abs(sum_z) > 8 * 50
        THEN [rule |-> "origin", origin_type |-> "center", z |-> sum_z]
        ELSE no_message

\* Returns [ok, msg]: the message of the first offending mesh object.
check_origin(objects, spec) ==
    LET origin_type == spec.origin
        bad == SelectSeq(objects, LAMBDA obj :
                   obj.type = "MESH" /\ origin_message(obj, origin_type) # no_message)
    IN  IF bad # << >>
        THEN [ok |-> FALSE, msg |-> origin_message(Head(bad), origin_type)]
        ELSE [ok |-> TRUE, msg |-> no_message]

\* A mutation of check_animations: the names are compared as they are written.
check_animations_case_sensitive(asset_id, objects) ==
    LET spec == get_spec(asset_id)
        required == IF spec = None THEN << >> ELSE spec.required_animations
        missing == SelectSeq(required, LAMBDA req : req \notin actions)
    IN  IF spec = None \/ required = << >> \/ missing = << >>
        THEN [ok |-> TRUE, msg |-> [rule |-> "none"]]
        ELSE [ok |-> FALSE, msg |-> [rule |-> "animations", missing |-> missing]]

check_animations(asset_id, objects) ==
    LET spec == get_spec(asset_id)
        required == IF spec = None THEN << >> ELSE spec.required_animations
        found_anims == {lower(a) : a \in actions}
        missing == SelectSeq(required, LAMBDA req : lower(req) \notin found_anims)
    IN  IF spec = None \/ required = << >> \/ missing = << >>
        THEN [ok |-> TRUE, msg |-> no_message]
        ELSE [ok |-> FALSE, msg |-> [rule |-> "animations", missing |-> missing]]

\* A mutation of export_glb_errors: the later checks run only on good dimensions.
export_glb_errors_short_circuit(asset_id, objects, spec, bounds) ==
    LET dims == validate_dimensions(asset_id, bounds.height, bounds.width, bounds.depth)
        origin == check_origin(objects, spec)
        anim == check_animations(asset_id, objects)
    IN  IF dims # << >>
        THEN dims
        ELSE (IF origin.ok THEN << >> ELSE << origin.msg >>)
             \o (IF anim.ok THEN << >> ELSE << anim.msg >>)

\* The list validate_asset builds: dimensions, then origin, then animations.
export_glb_errors(asset_id, objects, spec, bounds) ==
    LET dims == validate_dimensions(asset_id, bounds.height, bounds.width, bounds.depth)
        origin == check_origin(objects, spec)
        anim == check_animations(asset_id, objects)
    IN  dims
        \o (IF origin.ok THEN << >> ELSE << origin.msg >>)
        \o (IF anim.ok THEN << >> ELSE << anim.msg >>)

\* A mutation of export_glb_verdict: a violation fails the validation even when forced.
export_glb_verdict_unforced(errs, force) ==
    errs = << >>

\* if errors: return True if force else False; otherwise True
export_glb_verdict(errs, force) ==
    errs = << >> \/ force

\* The outcome of validate_asset once the violation list is built: [ret, errors, log].
export_glb_validated(errs, force) ==
    [ret |-> export_glb_verdict(errs, force), errors |-> errs,
     log |-> IF errs # << >>
             THEN << [ev |-> "violations", errors |-> errs] >>
             ELSE << [ev |-> "passed"] >>]

\* validate_asset once spec and bounds are read: [ret, errors, log].
export_glb_validate_with(asset_id, objects, force, spec, bounds) ==
    IF spec = None
    THEN [ret |-> force, errors |-> << >>,
          log |-> << [ev |-> "unknown_id", asset_id |-> asset_id,
                      level |-> IF force THEN "WARNING" ELSE "ERROR"] >>]
    ELSE IF bounds = None
    THEN [ret |-> FALSE, errors |-> << >>, log |-> << [ev |-> "no_mesh"] >>]
    ELSE export_glb_validated(export_glb_errors(asset_id, objects, spec, bounds), force)

export_glb_validate_asset(asset_id, objects, force) ==
    export_glb_validate_with(asset_id, objects, force,
                             get_spec(asset_id), export_glb_calculate_bounds(objects))

\* A mutation of export_glb: the call is repeated when it did not finish.
export_glb_retry(objects, outcome) ==
    [result |-> IF outcome = "RAISED" THEN "raised" ELSE "success",
     log    |-> IF outcome = "FINISHED"
                THEN << [ev |-> "gltf", selection |-> names_of(objects)] >>
                ELSE << [ev |-> "gltf", selection |-> names_of(objects)],
                        [ev |-> "gltf", selection |-> names_of(objects)] >>]

\* prepare_for_export selects `objects`; the encoder is called once, its
\* return value is not read and an exception leaves main through the call.
export_glb(objects, outcome) ==
    [result |-> IF outcome = "RAISED" THEN "raised" ELSE "success",
     log    |-> << [ev |-> "gltf", selection |-> names_of(objects)] >>]

\* main once the objects are collected, for a given asset id: v is what
\* validate_asset returned.
main_validated(v, objects, outcome) ==
    IF ~v.ret
    THEN [result |-> "failure", errors |-> v.errors, log |-> v.log]
    ELSE [result |-> export_glb(objects, outcome).result, errors |-> v.errors,
          log |-> v.log \o export_glb(objects, outcome).log]

main_with(asset_id, force, objects, outcome) ==
    IF objects = << >>
    THEN [result |-> "failure", errors |-> << >>, log |-> << [ev |-> "no_objects"] >>]
    ELSE IF asset_id # ""
    THEN main_validated(export_glb_validate_asset(asset_id, objects, force), objects, outcome)
    ELSE [result |-> export_glb(objects, outcome).result, errors |-> << >>,
          log |-> << [ev |-> "no_asset_id"] >> \o export_glb(objects, outcome).log]

\* main after parse_args; asset_id "" is an asset id that is None or empty.
\* sys.exit(1) is "failure", reaching the end of main is "success".
main(asset_id, force, outcome) ==
    main_with(asset_id, force, get_exportable_objects, outcome)

(***************************************************************************)
(* Bounds and inputs of the model.                                         *)
(***************************************************************************)
MaxObjects == 2

Eps == 2

EncoderOutcomes == {"FINISHED", "CANCELLED", "RAISED"}

\* Registered ids of three kinds (plain, animated, centre origin) and an unregistered one.
AssetIds == {"tree.pine.medium", "character.greenkeeper", "course.ball", "tree.sequoia"}

ActionSets == {{}, {"IDLE"}, {"Idle", "WALK", "push"}}

mesh(name, lo, hi, location) ==
    [name |-> name, type |-> "MESH", bound_box |-> [min |-> lo, max |-> hi],
     location |-> location]

helper(name, type) ==
    [name |-> name, type |-> type,
     bound_box |-> [min |-> <<0, 0, 0>>, max |-> <<0, 0, 0>>], location |-> <<0, 0, 0>>]

Shapes(name) ==
    { mesh(name, <<-1300, -1200, 0>>, <<1300, 1200, 6000>>, <<0, 0, 0>>),        \* 6.0 x 2.6 x 2.4
      mesh(name, <<-1250, -1250, 0>>, <<1250, 1250, 4500>>, <<0, 0, 0>>),        \* 4.5 x 2.5 x 2.5
      mesh(name, <<-1300, -1200, -3000>>, <<1300, 1200, 3000>>, <<0, 0, 3000>>), \* origin at the centre
      mesh(name, <<-1375, -1375, 11>>, <<1376, 1376, 7012>>, <<0, 0, 0>>),       \* every rule just failed
      mesh(name, <<-1375, -1375, -10>>, <<1375, 1375, 6990>>, <<0, 0, 0>>),      \* every rule just met
      mesh(name, <<-250, -150, 0>>, <<250, 150, 1800>>, <<0, 0, 0>>),            \* a character
      mesh(name, <<-22, -22, -22>>, <<22, 22, 22>>, <<0, 0, 0>>) }               \* a ball

Catalogue ==
    Shapes(<<"A">>)
    \cup { helper(<<"A">>, "EMPTY"), helper(<<"A">>, "ARMATURE") }
    \cup { mesh(<<"P">>, <<-1300, -1200, 0>>, <<1300, 1200, 6000>>, <<0, 0, 6000>>),
           mesh(<<"P">>, <<-250, -150, 5>>, <<250, 150, 1805>>, <<1000, 0, 0>>),
           helper(<<"P">>, "EMPTY"), helper(<<"P">>, "CAMERA") }
    \cup { mesh(<<"R", "E", "F", "_", "H">>, <<-300, -200, 0>>, <<300, 200, 1800>>, <<2000, 0, 0>>) }

\* Object names are unique in a Blender file.
Scenes ==
    UNION { { s \in [1..n -> Catalogue] :
                \A i, j \in 1..n : i # j => s[i].name # s[j].name } : n \in 0..MaxObjects }

NoCall == [op |-> "none"]

(***************************************************************************)
(* Spec: one run of an export gate over a scene.                           *)
(***************************************************************************)
Init ==
    /\ scene \in Scenes
    /\ actions \in ActionSets
    /\ call = NoCall
    /\ errors = << >>
    /\ log = << >>
    /\ result = "pending"
    /\ random_state = 0
    /\ registry_writes = << >>

\* A generator's export_asset(ctx, validate, force) after setup_asset_context(asset_id).
ExportAsset ==
    /\ result = "pending"
    /\ \E asset_id \in AssetIds, validate \in BOOLEAN, force \in BOOLEAN,
          outcome \in EncoderOutcomes :
          LET r == export_asset(setup_asset_context(asset_id), validate, force, outcome)
          IN  /\ call' = [op |-> "export_asset", asset_id |-> asset_id,
                          validate |-> validate, force |-> force,
                          outcome |-> IF \E i \in DOMAIN r.log : r.log[i].ev = "gltf"
                                      THEN outcome ELSE "not_called"]
              /\ errors' = r.errors
              /\ log' = r.log
              /\ result' = r.result
    /\ UNCHANGED <<scene, actions, random_state, registry_writes>>

\* export_glb.py run with [asset_id] [--force].
Main ==
    /\ result = "pending"
    /\ \E asset_id \in AssetIds \cup {""}, force \in BOOLEAN, outcome \in EncoderOutcomes :
          LET r == main(asset_id, force, outcome)
          IN  /\ call' = [op |-> "main", asset_id |-> asset_id,
                          validate |-> asset_id # "", force |-> force,
                          outcome |-> IF \E i \in DOMAIN r.log : r.log[i].ev = "gltf"
                                      THEN outcome ELSE "not_called"]
              /\ errors' = r.errors
              /\ log' = r.log
              /\ result' = r.result
    /\ UNCHANGED <<scene, actions, random_state, registry_writes>>

Next == ExportAsset \/ Main

Spec == Init /\ [][Next]_vars

(***************************************************************************)
(* SpecValidate: validate_dimensions applied to arguments around the       *)
(* limits of the registered specs.                                         *)
(***************************************************************************)
KnownIds == AssetIds \cap DOMAIN ASSET_SPECS

Near(S) == UNION { {n - d, n + d} : n \in S, d \in 0..Eps }

Heights ==
    Near(UNION { {ASSET_SPECS[id].height_range[1], ASSET_SPECS[id].height_range[2]} : id \in KnownIds })

\* The footprint limits max * 1.1 are whole millimetres for these ids.
Footprints ==
    Near(UNION { {(11 * ASSET_SPECS[id].footprint[1]) \div 10,
                  (11 * ASSET_SPECS[id].footprint[2]) \div 10} : id \in KnownIds })
    \cup {2400, 2500, 2600}

InitValidate ==
    /\ scene = << >>
    /\ actions = {}
    /\ call = NoCall
    /\ errors = << >>
    /\ log = << >>
    /\ result = "pending"
    /\ random_state = 0
    /\ registry_writes = << >>

ValidateDimensions ==
    /\ result = "pending"
    /\ \E asset_id \in AssetIds \cup {"tree.pine", ""}, height \in Heights, width \in Footprints, depth \in Footprints :
          /\ call' = [op |-> "validate_dimensions", asset_id |-> asset_id,
                      height |-> height, width |-> width, depth |-> depth]
          /\ errors' = validate_dimensions(asset_id, height, width, depth)
    /\ result' = "returned"
    /\ UNCHANGED <<scene, actions, log, random_state, registry_writes>>

NextValidate == ValidateDimensions

SpecValidate == InitValidate /\ [][NextValidate]_vars

(***************************************************************************)
(* Properties of the export gates (Spec).                                  *)
(***************************************************************************)
GateRan == call.op \in {"export_asset", "main"}

EncoderCalls == Cardinality({i \in DOMAIN log : log[i].ev = "gltf"})

KnownId == call.asset_id \in DOMAIN ASSET_SPECS

\* The validation of the run found something: a non-empty violation list or,
\* in main, an asset id without registry entry.
ViolationFound ==
    \/ errors # << >>
    \/ call.op = "main" /\ call.asset_id # "" /\ ~KnownId

\* C1: in both gates, when validation runs, finds a violation and force is
\* false, the run ends in failure and the encoder is not invoked.
C1_ViolationBlocksExport ==
    (GateRan /\ call.validate /\ ~call.force /\ ViolationFound)
        => (result = "failure" /\ EncoderCalls = 0)

C1_Witness ==
    /\ call.op = "export_asset" /\ call.validate /\ ~call.force
    /\ KnownId /\ errors # << >> /\ result = "failure"

HasMesh == \E i \in DOMAIN scene : scene[i].type = "MESH"

HasExportableMesh ==
    \E i \in DOMAIN scene : scene[i].type = "MESH" /\ ~startswith_REF(scene[i].name)

\* Whatever validation found is in the log, and before the encoder call.
ReportedBeforeEncoder ==
    /\ errors # << >> =>
           \E j \in DOMAIN log : log[j].ev = "violations" /\ log[j].errors = errors
    /\ (call.op = "main" /\ call.asset_id # "" /\ ~KnownId) =>
           \E j \in DOMAIN log : log[j].ev = "unknown_id"
    /\ \A i, j \in DOMAIN log :
           (log[i].ev = "gltf" /\ log[j].ev \in {"violations", "unknown_id"}) => j < i

C3_NoMeshNoExport ==
    (GateRan /\ ~HasMesh) => (result = "failure" /\ EncoderCalls = 0)

\* The mesh objects of the scene against every rule of export_glb's validation.
EngineViolations ==
    LET meshes == SelectSeq(scene, LAMBDA obj : obj.type = "MESH")
    IN  export_glb_errors(call.asset_id, meshes, get_spec(call.asset_id),
                          export_glb_calculate_bounds(meshes))

\* C4: export_asset(validate=True, force=False) fails without encoding
\* whenever the asset breaks a height, footprint, origin or animation rule.
C4_EveryRuleBlocksExportAsset ==
    (call.op = "export_asset" /\ call.validate /\ ~call.force /\ KnownId /\ HasMesh
     /\ EngineViolations # << >>)
        => (result = "failure" /\ EncoderCalls = 0)

\* C5: once the encoder was invoked, the run reports success exactly when
\* the encoder call succeeded; a failed or cancelled call is a failure.
C5_ResultIsEncoderOutcome ==
    (GateRan /\ EncoderCalls >= 1) => (result = "success" <=> call.outcome = "FINISHED")

\* C6: one export run invokes the encoder at most once, also when the call
\* fails.
C6_EncoderAtMostOnce ==
    GateRan => EncoderCalls <= 1

C6_Witness ==
    call.op = "main" /\ EncoderCalls = 1 /\ call.outcome = "RAISED" /\ result = "raised"

\* The rules of the validation, decided on the scene and the registry.
Exportable == get_exportable_objects

Measured == export_glb_calculate_bounds(Exportable)

RuleFailed(rule) ==
    LET spec == ASSET_SPECS[call.asset_id]
    IN  CASE rule = "height" ->
                 \/ Measured.height < spec.height_range[1]
                 \/ Measured.height > spec.height_range[2]
          [] rule = "width" -> 10 * Measured.width > 11 * spec.footprint[1]
          [] rule = "depth" -> 10 * Measured.depth > 11 * spec.footprint[2]
          [] rule = "origin" ->
                 \E i \in DOMAIN Exportable :
                     LET obj == Exportable[i]
                     IN  /\ obj.type = "MESH"
                         /\ \/ spec.origin = "base_center" /\ Abs(obj.bound_box.min[3]) > 10
                            \/ spec.origin = "center"
                               /\ Abs(obj.bound_box.min[3] + obj.bound_box.max[3]) > 100
          [] rule = "animations" ->
                 \E k \in DOMAIN spec.required_animations :
                     \A a \in actions : lower(a) # lower(spec.required_animations[k])

FailedRules ==
    SelectSeq(<<"height", "width", "depth", "origin", "animations">>, RuleFailed)

Validated == call.op = "validate_dimensions"

HasError(rule) == \E i \in DOMAIN errors : errors[i].rule = rule

\* C7: for an id without registry entry validate_dimensions returns the one
\* message "Unknown asset ID: {id}", whatever the dimensions are.
C7_UnknownIdOnly ==
    (Validated /\ ~KnownId)
        => errors = << [rule |-> "unknown", asset_id |-> call.asset_id] >>

C7_Witness ==
    /\ Validated /\ call.asset_id = "tree.sequoia"
    /\ call.height = 7001 /\ call.width = 2751 /\ Len(errors) = 1

\* C8: for a known id there is a height violation if and only if the height
\* is below the minimum or above the maximum of height_range; the minimum
\* and the maximum themselves pass.
C8_HeightRule ==
    (Validated /\ KnownId)
        => (HasError("height") <=>
               \/ call.height < ASSET_SPECS[call.asset_id].height_range[1]
               \/ call.height > ASSET_SPECS[call.asset_id].height_range[2])

C8_Witness ==
    /\ Validated /\ KnownId /\ ~HasError("height")
    /\ call.height = ASSET_SPECS[call.asset_id].height_range[1]

\* C9: for a known id there is a width violation if and only if
\* width > max_width * 1.1 and, independently, a depth violation if and only
\* if depth > max_depth * 1.1, in exact arithmetic.
C9_FootprintRule ==
    (Validated /\ KnownId)
        => /\ HasError("width") <=>
                  10 * call.width > 11 * ASSET_SPECS[call.asset_id].footprint[1]
           /\ HasError("depth") <=>
                  10 * call.depth > 11 * ASSET_SPECS[call.asset_id].footprint[2]

C9_Witness ==
    /\ Validated /\ KnownId
    /\ 10 * call.width = 11 * ASSET_SPECS[call.asset_id].footprint[1]
    /\ ~HasError("width") /\ HasError("depth") /\ HasError("height")
(***************************************************************************)
(* SpecChecks: check_origin and check_animations applied to scenes whose   *)
(* boxes sit around the two tolerances and to every set of action names.   *)
(***************************************************************************)
ActionNames == {"IDLE", "Walk", "push", "Swing.001"}

\* Local Z extents: bottoms around 0.01 and centres around 0.05, on both sides.
Extents ==
    { <<-11, 5989>>, <<-10, 5990>>, <<0, 6000>>, <<10, 6010>>, <<11, 6011>>,
      <<-73, -28>>, <<-72, -28>>, <<-22, 22>>, <<28, 72>>, <<28, 73>>,
      <<0, 44>> }

\* An armature has a bounding box of its own, which no check reads.
CheckedObjects(name) ==
    { mesh(name, <<-20, -20, e[1]>>, <<20, 20, e[2]>>, <<0, 0, 0>>) : e \in Extents }
    \cup { helper(name, "EMPTY"),
           [name |-> name, type |-> "ARMATURE",
            bound_box |-> [min |-> <<-200, -100, -300>>, max |-> <<200, 100, 1500>>],
            location |-> <<0, 0, 0>>] }

CheckedScenes ==
    UNION { { s \in [1..n -> CheckedObjects(<<"A">>) \cup CheckedObjects(<<"P">>)] :
                \A i \in 1..n : s[i].name = (IF i = 1 THEN <<"A">> ELSE <<"P">>) }
            : n \in 0..MaxObjects }

InitChecks ==
    /\ scene \in CheckedScenes
    /\ actions \in SUBSET ActionNames
    /\ call = NoCall
    /\ errors = << >>
    /\ log = << >>
    /\ result = "pending"
    /\ random_state = 0
    /\ registry_writes = << >>

\* check_origin(objects, spec) on the objects of the scene; errors holds the
\* message validate_asset would append.
CheckOrigin ==
    /\ result = "pending"
    /\ \E asset_id \in KnownIds :
          LET r == check_origin(scene, ASSET_SPECS[asset_id])
          IN  /\ call' = [op |-> "check_origin", asset_id |-> asset_id]
              /\ errors' = IF r.ok THEN << >> ELSE << r.msg >>
              /\ log' = << [ev |-> "returned", ok |-> r.ok, msg |-> r.msg] >>
    /\ result' = "returned"
    /\ UNCHANGED <<scene, actions, random_state, registry_writes>>

CheckAnimations ==
    /\ result = "pending"
    /\ \E asset_id \in AssetIds \cup {"character.golfer.male"} :
          LET r == check_animations(asset_id, scene)
          IN  /\ call' = [op |-> "check_animations", asset_id |-> asset_id]
              /\ errors' = IF r.ok THEN << >> ELSE << r.msg >>
              /\ log' = << [ev |-> "returned", ok |-> r.ok, msg |-> r.msg] >>
    /\ result' = "returned"
    /\ UNCHANGED <<scene, actions, random_state, registry_writes>>

NextChecks == CheckOrigin \/ CheckAnimations

SpecChecks == InitChecks /\ [][NextChecks]_vars

(***************************************************************************)
(* Properties of check_origin and check_animations (SpecChecks).           *)
(***************************************************************************)
MeshIndices == {i \in DOMAIN scene : scene[i].type = "MESH"}

\* Twice the local centre Z of an object, in millimetres.
TwiceCentreZ(obj) == obj.bound_box.min[3] + obj.bound_box.max[3]

OriginOff ==
    IF ASSET_SPECS[call.asset_id].origin = "base_center"
    THEN \E i \in MeshIndices : Abs(scene[i].bound_box.min[3]) > 10
    ELSE \E i \in MeshIndices : Abs(TwiceCentreZ(scene[i])) > 2 * 50

\* C11: check_origin reports a violation if and only if some mesh object's
\* local minimum Z (base_center) is more than 0.01 from 0, or its local
\* centre Z (center) more than 0.05 from 0; a value at the tolerance passes
\* and there is at most one message.
C11_OriginRule ==
    call.op = "check_origin"
        => /\ Len(errors) <= 1
           /\ errors # << >> <=> OriginOff
           /\ log[1].ok <=> ~OriginOff
           /\ errors # << >> => errors[1].rule = "origin"

\* Two meshes both off, one message; and a scene exactly at the tolerance passing.
C11_Witness ==
    /\ call.op = "check_origin"
    /\ \/ /\ ASSET_SPECS[call.asset_id].origin = "center"
          /\ Len(scene) = 2 /\ MeshIndices = {1, 2}
          /\ TwiceCentreZ(scene[1]) = 100 /\ TwiceCentreZ(scene[2]) = -100
          /\ errors = << >>
       \/ /\ ASSET_SPECS[call.asset_id].origin = "base_center"
          /\ Len(scene) = 2 /\ MeshIndices = {1, 2}
          /\ scene[1].bound_box.min[3] = 11 /\ scene[2].bound_box.min[3] = -11
          /\ Len(errors) = 1

Required == ASSET_SPECS[call.asset_id].required_animations

Matched(req) == \E a \in actions : lower(a) = lower(req)

\* C12: check_animations yields at most one message; it names exactly the
\* required names without case-insensitive match among the action names, in
\* the order of the spec, and the check passes iff none is missing.
C12_AnimationRule ==
    (call.op = "check_animations" /\ KnownId)
        => /\ Len(errors) <= 1
           /\ errors = << >> <=> \A k \in DOMAIN Required : Matched(Required[k])
           /\ log[1].ok <=> errors = << >>
           /\ errors # << >> =>
                 LET missing == errors[1].missing
                 IN  /\ \A k \in DOMAIN Required :
                            ~Matched(Required[k]) <=>
                                \E m \in DOMAIN missing : missing[m] = Required[k]
                     /\ \A m \in DOMAIN missing :
                            \E k \in DOMAIN Required : missing[m] = Required[k]
                     /\ \A m, n \in DOMAIN missing : m < n =>
                            \E k, l \in DOMAIN Required :
                                k < l /\ Required[k] = missing[m] /\ Required[l] = missing[n]

\* Available {IDLE}: idle is matched, the message names walk and push only.
C12_Witness ==
    /\ call.op = "check_animations" /\ call.asset_id = "character.greenkeeper"
    /\ actions = {"IDLE"}
    /\ errors = << [rule |-> "animations", missing |-> <<"walk", "push">>] >>
(***************************************************************************)
(* Helper objects (Spec).                                                  *)
(***************************************************************************)
NonHelperMeshes ==
    SelectSeq(scene, LAMBDA obj : obj.type = "MESH" /\ ~startswith_REF(obj.name))

\* The violation list the gate of the run builds when the REF_ objects are
\* left out of the measurement.
ErrorsWithoutHelpers ==
    IF call.op = "export_asset"
    THEN context_collect_errors(setup_asset_context(call.asset_id), NonHelperMeshes)
    ELSE export_glb_errors(call.asset_id, NonHelperMeshes, get_spec(call.asset_id),
                           export_glb_calculate_bounds(NonHelperMeshes))

\* C13: in both export paths no object whose name starts with REF_ is among
\* the objects selected for the encoder, and the violations found are those
\* of the scene measured without the REF_ objects.
C13_HelpersExcluded ==
    GateRan =>
        /\ \A i \in DOMAIN log : log[i].ev = "gltf" =>
               \A k \in DOMAIN log[i].selection : ~startswith_REF(log[i].selection[k])
        /\ (call.validate /\ KnownId /\ NonHelperMeshes # << >>)
               => errors = ErrorsWithoutHelpers
(***************************************************************************)
(* generators/_common/geometry.py                                          *)
(*                                                                         *)
(* A generated object is                                                   *)
(*   [name, type, verts, bound_box, location, scale]                       *)
(* with verts the sequence of the mesh's vertex coordinates (obj.data),    *)
(* bound_box the box of verts, and scale in thousandths.                   *)
(*                                                                         *)
(* Coordinates are whole numbers of a length unit.  mathutils vectors,     *)
(* mesh coordinates and object locations are single-precision floats: a    *)
(* stored value keeps 24 significant bits (fl).  On lengths in             *)
(* millimetres, which stay below 2^24, fl changes nothing and the          *)
(* arithmetic is exact; on lengths counted in units of 2^-25 m the same    *)
(* definitions are the arithmetic of the floats themselves.  The inputs    *)
(* of the specifications are on a grid on which the halvings and the       *)
(* division by 8 leave no remainder.                                       *)
(***************************************************************************)
ulp(n) ==
    IF Abs(n) < 2^24
    THEN 1
    ELSE CHOOSE q \in {2, 4, 8, 16, 32, 64, 128} : (Abs(n) \div q) \in (2^23)..(2^24 - 1)

\* Rounding to the nearest float, ties to even.
fl(n) ==
    LET q == ulp(n)
        r == Abs(n) % q
        lo == Abs(n) - r
        up == IF 2 * r > q \/ (2 * r = q /\ (lo \div q) % 2 = 1) THEN lo + q ELSE lo
    IN  IF n < 0 THEN -up ELSE up

Range(seq) == {seq[k] : k \in DOMAIN seq}

bbox_of(verts) ==
    [min |-> [i \in 1..3 |-> SetMin({v[i] : v \in Range(verts)})],
     max |-> [i \in 1..3 |-> SetMax({v[i] : v \in Range(verts)})]]

\* bpy.data.objects.new(name, mesh), linked at `location`.
mesh_object(name, verts, location) ==
    [name |-> name, type |-> "MESH", verts |-> verts, bound_box |-> bbox_of(verts),
     location |-> location, scale |-> <<1000, 1000, 1000>>]

\* Writing the mesh coordinates; obj.bound_box is the box of the new coordinates.
with_data(obj, verts) ==
    [obj EXCEPT !.verts = verts, !.bound_box = bbox_of(verts)]

\* A mutation of origin_offset: the origin goes to the centre of the box.
origin_offset_centre(obj) ==
    LET bbox == obj.bound_box
        center_x == (4 * bbox.min[1] + 4 * bbox.max[1]) \div 8
        center_y == (4 * bbox.min[2] + 4 * bbox.max[2]) \div 8
        center_z == (4 * bbox.min[3] + 4 * bbox.max[3]) \div 8
    IN  << fl(center_x), fl(center_y), fl(center_z) >>

\* offset = Vector((center_x, center_y, min_z))
origin_offset(obj) ==
    LET bbox == obj.bound_box
        min_z == bbox.min[3]
        center_x == (4 * bbox.min[1] + 4 * bbox.max[1]) \div 8
        center_y == (4 * bbox.min[2] + 4 * bbox.max[2]) \div 8
    IN  << fl(center_x), fl(center_y), fl(min_z) >>

\* A mutation of set_origin_to_base: the object's location is left alone.
set_origin_to_base_data_only(obj) ==
    LET offset == origin_offset(obj)
    IN  with_data(obj, [k \in DOMAIN obj.verts |->
                           [i \in 1..3 |-> fl(obj.verts[k][i] - offset[i])]])

set_origin_to_base(obj) ==
    LET offset == origin_offset(obj)
        moved == [k \in DOMAIN obj.verts |->
                     [i \in 1..3 |-> fl(obj.verts[k][i] - offset[i])]]
    IN  [with_data(obj, moved) EXCEPT
            !.location = [i \in 1..3 |-> fl(obj.location[i] + offset[i])]]

\* bpy.ops.object.transform_apply(location, rotation, scale); the objects of
\* the model carry no rotation.
transform_apply(obj, location, scale) ==
    LET s == IF scale THEN obj.scale ELSE <<1000, 1000, 1000>>
        t == IF location THEN obj.location ELSE <<0, 0, 0>>
        moved == [k \in DOMAIN obj.verts |->
                     [i \in 1..3 |-> fl((obj.verts[k][i] * s[i]) \div 1000 + t[i])]]
    IN  [with_data(obj, moved) EXCEPT
            !.location = IF location THEN <<0, 0, 0>> ELSE @,
            !.scale = IF scale THEN <<1000, 1000, 1000>> ELSE @]

apply_transforms(obj) ==
    transform_apply(obj, TRUE, TRUE)

(***************************************************************************)
(* Blender's mesh primitives, centred on the object's origin.  A ring of  *)
(* a cylinder or a cone is modelled by its four vertices on the axes,     *)
(* which every ring of 8 or 12 vertices has and which span its box.       *)
(***************************************************************************)
ring(r, z) ==
    << <<0, r, z>>, <<r, 0, z>>, <<0, -r, z>>, <<-r, 0, z>> >>

primitive_cylinder_add(radius, depth, location) ==
    mesh_object(<<"C", "y", "l">>,
                ring(radius, -(depth \div 2)) \o ring(radius, depth \div 2), location)

primitive_cone_add(radius1, radius2, depth, location) ==
    mesh_object(<<"C", "o", "n", "e">>,
                ring(radius1, -(depth \div 2))
                \o (IF radius2 = 0 THEN << <<0, 0, depth \div 2>> >>
                                   ELSE ring(radius2, depth \div 2)),
                location)

primitive_cube_add(size, location) ==
    LET h == size \div 2
    IN  mesh_object(<<"C", "u", "b", "e">>,
                    << <<-h, -h, -h>>, <<-h, -h, h>>, <<-h, h, -h>>, <<-h, h, h>>,
                       <<h, -h, -h>>, <<h, -h, h>>, <<h, h, -h>>, <<h, h, h>> >>,
                    location)

\* A mutation of create_cylinder: the primitive is added at the requested
\* location and its origin stays at its centre.
create_cylinder_centred(name, radius, height, location) ==
    [primitive_cylinder_add(radius, height, location) EXCEPT !.name = name]

create_cylinder(name, radius, height, location) ==
    LET obj == primitive_cylinder_add(radius, height,
                   <<location[1], location[2], location[3] + height \div 2>>)
    IN  [set_origin_to_base([obj EXCEPT !.name = name]) EXCEPT !.location = location]

create_cone(name, radius, height, location) ==
    LET obj == primitive_cone_add(radius, 0, height,
                   <<location[1], location[2], location[3] + height \div 2>>)
    IN  [set_origin_to_base([obj EXCEPT !.name = name]) EXCEPT !.location = location]

\* size=1 is one metre; obj.scale = (width, depth, height) in metres.
create_box(name, width, depth, height, location) ==
    LET obj == primitive_cube_add(1000,
                   <<location[1], location[2], location[3] + height \div 2>>)
        scaled == [obj EXCEPT !.name = name, !.scale = <<width, depth, height>>]
    IN  [set_origin_to_base(apply_transforms(scaled)) EXCEPT !.location = location]
(***************************************************************************)
(* SpecGeometry: a generator building parts and moving origins, in         *)
(* millimetres.                                                            *)
(***************************************************************************)
MaxSteps == 3

box_verts(lo, hi) ==
    << <<lo[1], lo[2], lo[3]>>, <<lo[1], lo[2], hi[3]>>, <<lo[1], hi[2], lo[3]>>,
       <<lo[1], hi[2], hi[3]>>, <<hi[1], lo[2], lo[3]>>, <<hi[1], lo[2], hi[3]>>,
       <<hi[1], hi[2], lo[3]>>, <<hi[1], hi[2], hi[3]>> >>

\* Meshes as a generator leaves them before the origin is set.
GeneratedObjects ==
    { mesh_object(<<"M">>, box_verts(<<100, -300, -200>>, <<700, 500, 1000>>), <<0, 0, 0>>),
      mesh_object(<<"M">>, box_verts(<<-500, -300, 300>>, <<700, 500, 900>>), <<-400, 0, 250>>),
      mesh_object(<<"M">>, box_verts(<<-1300, 200, 0>>, <<-100, 1200, 6000>>), <<2000, 1000, 0>>),
      mesh_object(<<"M">>, ring(900, 1260) \o << <<0, 0, 3080>> >>, <<0, 0, 0>>) }

Locations == { <<0, 0, 0>>, <<1000, -2000, 500>> }

\* <<radius, height>> of cylinders and cones; <<width, depth, height>> of boxes.
RoundSizes == { <<150, 1200>>, <<400, 3000>> }

BoxSizes == { <<600, 400, 1800>>, <<2000, 1000, 500>> }

InitGeometry ==
    /\ scene \in { << >> } \cup { << obj >> : obj \in GeneratedObjects }
    /\ actions = {}
    /\ call = NoCall
    /\ errors = << >>
    /\ log = << >>
    /\ result = "pending"
    /\ random_state = 0
    /\ registry_writes = << >>

CreateCylinder ==
    /\ Len(log) < MaxSteps
    /\ \E size \in RoundSizes, location \in Locations :
          /\ scene' = Append(scene, create_cylinder(<<"P">>, size[1], size[2], location))
          /\ call' = [op |-> "create_cylinder", radius |-> size[1], height |-> size[2],
                      location |-> location]
    /\ log' = Append(log, [ev |-> "create_cylinder"])
    /\ UNCHANGED <<actions, errors, result, random_state, registry_writes>>

CreateCone ==
    /\ Len(log) < MaxSteps
    /\ \E size \in RoundSizes, location \in Locations :
          /\ scene' = Append(scene, create_cone(<<"P">>, size[1], size[2], location))
          /\ call' = [op |-> "create_cone", radius |-> size[1], height |-> size[2],
                      location |-> location]
    /\ log' = Append(log, [ev |-> "create_cone"])
    /\ UNCHANGED <<actions, errors, result, random_state, registry_writes>>

CreateBox ==
    /\ Len(log) < MaxSteps
    /\ \E size \in BoxSizes, location \in Locations :
          /\ scene' = Append(scene, create_box(<<"P">>, size[1], size[2], size[3], location))
          /\ call' = [op |-> "create_box", width |-> size[1], depth |-> size[2],
                      height |-> size[3], location |-> location]
    /\ log' = Append(log, [ev |-> "create_box"])
    /\ UNCHANGED <<actions, errors, result, random_state, registry_writes>>

\* set_origin_to_base(obj) on an object of the scene; call records the
\* offset the function computed.
SetOriginToBase ==
    /\ Len(log) < MaxSteps
    /\ \E index \in DOMAIN scene :
          /\ scene' = [scene EXCEPT ![index] = set_origin_to_base(@)]
          /\ call' = [op |-> "set_origin_to_base", index |-> index,
                      offset |-> origin_offset(scene[index])]
    /\ log' = Append(log, [ev |-> "set_origin_to_base"])
    /\ UNCHANGED <<actions, errors, result, random_state, registry_writes>>

NextGeometry == CreateCylinder \/ CreateCone \/ CreateBox \/ SetOriginToBase

SpecGeometry == InitGeometry /\ [][NextGeometry]_vars

(***************************************************************************)
(* SpecFloat32: set_origin_to_base on boxes whose coordinates are floats   *)
(* with full mantissas, counted in units of 2^-25 m (52680460 is the float *)
(* nearest 1.57, 56371444 the float nearest 1.68, -11072963 the float      *)
(* nearest -0.33).                                                         *)
(***************************************************************************)
FloatLows == { 33554432, 44627396, 52680460 }

FloatHighs == { 56371444, 68115496, 85563800 }

FloatLocations == { 0, -11072963, 40265320 }

FloatObjects ==
    { mesh_object(<<"M">>, box_verts(<<x0, y0, 0>>, <<x1, 83886080, 40265320>>), <<lx, 0, 0>>) :
          x0 \in FloatLows, y0 \in FloatLows, x1 \in FloatHighs, lx \in FloatLocations }

InitFloat32 ==
    /\ scene \in { << obj >> : obj \in FloatObjects }
    /\ actions = {}
    /\ call = NoCall
    /\ errors = << >>
    /\ log = << >>
    /\ result = "pending"
    /\ random_state = 0
    /\ registry_writes = << >>

NextFloat32 == SetOriginToBase

SpecFloat32 == InitFloat32 /\ [][NextFloat32]_vars

(***************************************************************************)
(* Properties of set_origin_to_base and the builders.                      *)
(***************************************************************************)
\* C14: set_origin_to_base applied twice in succession to an object leaves
\* its mesh coordinates, bounding box and location as the first application
\* left them.
C14_SecondCallChangesNothing ==
    [][(/\ call.op = "set_origin_to_base" /\ call'.op = "set_origin_to_base"
        /\ call'.index = call.index /\ Len(log') = Len(log) + 1)
          => scene' = scene]_vars

HorizontallyCentred(obj) ==
    /\ obj.bound_box.min[1] + obj.bound_box.max[1] = 0
    /\ obj.bound_box.min[2] + obj.bound_box.max[2] = 0

\* C15: set_origin_to_base moves the mesh so that the horizontal centre and
\* the minimum Z of the local bounding box are at (0, 0, 0), adds the offset
\* it took from the mesh to the location, and so leaves the world-space
\* bounding box where it was.
C15_WorldBoxKept ==
    [][(call'.op = "set_origin_to_base" /\ Len(log') = Len(log) + 1)
          => LET before == scene[call'.index]
                 after == scene'[call'.index]
             IN  /\ HorizontallyCentred(after)
                 /\ after.bound_box.min[3] = 0
                 /\ \A k \in DOMAIN before.verts : \A i \in 1..3 :
                        after.verts[k][i] = before.verts[k][i] - call'.offset[i]
                 /\ \A i \in 1..3 :
                        after.location[i] = before.location[i] + call'.offset[i]
                 /\ world_box(after) = world_box(before)]_vars

\* An origin moved in all three directions on an object away from the world origin.
C15_Witness ==
    /\ call.op = "set_origin_to_base"
    /\ \A i \in 1..3 : call.offset[i] # 0
    /\ scene[call.index].location # call.offset
    /\ scene[call.index].bound_box.min[3] = 0

Built == call.op \in {"create_box", "create_cylinder", "create_cone"}

\* C16: the part a builder returns has local minimum Z 0, its origin at the
\* horizontal centre of its box and the requested location, and so spans
\* world Z from location.z to location.z + height.
C16_BuilderPostcondition ==
    Built =>
        LET part == scene[Len(scene)]
        IN  /\ part.bound_box.min[3] = 0
            /\ HorizontallyCentred(part)
            /\ part.location = call.location
            /\ world_box(part).min[3] = call.location[3]
            /\ world_box(part).max[3] = call.location[3] + call.height

C16_Witness ==
    /\ call.op = "create_cylinder" /\ call.location = <<1000, -2000, 500>>
    /\ world_box(scene[Len(scene)]).max[3] = 500 + call.height
    /\ Len(scene) = 3
(***************************************************************************)
(* The random module.  Its functions act on one hidden generator of the    *)
(* process, whose state is random_state.  The generator of the model has   *)
(* sixteen states and random() takes the four values 0, 1/4, 1/2, 3/4.     *)
(***************************************************************************)
\* A mutation of random_seed: the generator is left in the state it was in.
random_seed_forgotten(state, seed) ==
    state

\* random.seed(seed): the new state depends on the seed alone.
random_seed(state, seed) ==
    (7 * seed + 3) % 16

\* The state after one draw.
random_next(state) ==
    (5 * state + 1) % 16

\* random.uniform(a, b) = a + (b - a) * random(), read off the state the draw left.
random_uniform(state, a, b) ==
    a + ((b - a) * (state \div 4)) \div 4

\* randomize_vertices(obj, amount, seed), from the type test on: `state` is
\* the generator after random.seed(seed).  Returns [verts, state].
RECURSIVE randomized(_, _, _)
randomized(verts, state, amount) ==
    IF verts = << >>
    THEN [verts |-> << >>, state |-> state]
    ELSE LET s1 == random_next(state)
             s2 == random_next(s1)
             s3 == random_next(s2)
             v == Head(verts)
             co == << fl(v[1] + random_uniform(s1, -amount, amount)),
                      fl(v[2] + random_uniform(s2, -amount, amount)),
                      fl(v[3] + random_uniform(s3, -amount, amount)) >>
             rest == randomized(Tail(verts), s3, amount)
         IN  [verts |-> << co >> \o rest.verts, state |-> rest.state]

\* Returns [obj, state].
randomize_vertices(state, obj, amount, seed) ==
    IF obj.type # "MESH"
    THEN [obj |-> obj, state |-> random_seed(state, seed)]
    ELSE LET r == randomized(obj.verts, random_seed(state, seed), amount)
         IN  [obj |-> with_data(obj, r.verts), state |-> r.state]

(***************************************************************************)
(* generators/_common/nature.py.  Factors such as 0.3 are applied in       *)
(* exact arithmetic; the sizes of the model leave no remainder.            *)
(* Materials have no part in the geometry and are left out.                *)
(***************************************************************************)
\* A sphere of Blender is modelled by fourteen points of the sphere: the two
\* poles, four points of the equator and eight at z = +/- 0.8 radius.
primitive_ico_sphere_add(radius, location) ==
    LET a == (3 * radius) \div 5
        b == (4 * radius) \div 5
    IN  mesh_object(<<"I", "c", "o">>,
                    << <<0, 0, -radius>>,
                       <<a, 0, -b>>, <<0, a, -b>>, <<-a, 0, -b>>, <<0, -a, -b>>,
                       <<radius, 0, 0>>, <<0, radius, 0>>, <<-radius, 0, 0>>, <<0, -radius, 0>>,
                       <<a, 0, b>>, <<0, a, b>>, <<-a, 0, b>>, <<0, -a, b>>,
                       <<0, 0, radius>> >>,
                    location)

create_simple_trunk(height, base_radius, top_radius) ==
    [primitive_cone_add(base_radius, top_radius, height, <<0, 0, height \div 2>>)
        EXCEPT !.name = <<"T", "r", "u", "n", "k">>]

\* Layer i (from 0) of create_conical_foliage with layers=3, layer_overlap=0.3.
foliage_layer(height, base_radius, start_z, i) ==
    LET layer_height == ((height \div 3) * 13) \div 10
        radius == (base_radius * (100 - 25 * i)) \div 100
        z_pos == start_z + (height \div 3) * i
    IN  [primitive_cone_add(radius, 0, layer_height, <<0, 0, z_pos + layer_height \div 2>>)
            EXCEPT !.name = <<"F", "o", "l", "i", "a", "g", "e", "_">>]

create_conical_foliage(height, base_radius, start_z) ==
    << foliage_layer(height, base_radius, start_z, 0),
       foliage_layer(height, base_radius, start_z, 1),
       foliage_layer(height, base_radius, start_z, 2) >>

create_spherical_foliage(radius, center_z) ==
    [primitive_ico_sphere_add(radius, <<0, 0, center_z>>)
        EXCEPT !.name = <<"F", "o", "l", "i", "a", "g", "e">>]

\* The coordinates of the objects' vertices in the space of an object at `origin`.
RECURSIVE joined_verts(_, _)
joined_verts(objects, origin) ==
    IF objects = << >>
    THEN << >>
    ELSE LET obj == Head(objects)
         IN  [k \in DOMAIN obj.verts |->
                 [i \in 1..3 |-> fl(obj.verts[k][i] + obj.location[i] - origin[i])]]
             \o joined_verts(Tail(objects), origin)

\* bpy.ops.object.join() into objects[0], the active object.  A name of
\* << >> stands for the falsy names None and "": the result keeps its name.
join_objects(objects, name) ==
    IF objects = << >>
    THEN None
    ELSE [with_data(Head(objects), joined_verts(objects, Head(objects).location))
             EXCEPT !.name = IF name = << >> THEN @ ELSE name]

\* base_radius = total_height * 0.3 when base_radius is None.
pine_default_base_radius(total_height) ==
    (total_height * 3) \div 10

\* Returns [obj, state]; trunk_ratio is in hundredths.
create_simple_pine(state, total_height, trunk_ratio, base_radius, seed) ==
    LET trunk_height == (total_height * trunk_ratio) \div 100
        foliage_height == (total_height * (100 - trunk_ratio)) \div 100
        trunk == create_simple_trunk(trunk_height, (base_radius * 15) \div 100,
                                     (base_radius * 8) \div 100)
        foliage_parts == create_conical_foliage(foliage_height, base_radius,
                                                (trunk_height * 7) \div 10)
        tree == join_objects(<< trunk >> \o foliage_parts, <<"P", "i", "n", "e">>)
    IN  [obj |-> set_origin_to_base(tree), state |-> random_seed(state, seed)]

\* crown_radius = total_height * 0.35 when crown_radius is None.
deciduous_default_crown_radius(total_height) ==
    (total_height * 35) \div 100

\* Returns [obj, state]; trunk_ratio is in hundredths.
create_simple_deciduous(state, total_height, trunk_ratio, crown_radius, seed) ==
    LET trunk_height == (total_height * trunk_ratio) \div 100
        trunk == create_simple_trunk((trunk_height * 12) \div 10, (total_height * 5) \div 100,
                                     (total_height * 2) \div 100)
        crown_center_z == trunk_height + crown_radius \div 2
        crown == create_spherical_foliage(crown_radius, crown_center_z)
        tree == join_objects(<< trunk, crown >>, <<"D", "e", "c", "i", "d", "u", "o", "u", "s">>)
    IN  [obj |-> set_origin_to_base(tree), state |-> random_seed(state, seed)]

\* The unit sphere of create_shrub after shrub.scale = (width/2, width/2,
\* height/2) and bpy.ops.object.transform_apply(scale=True).  The operator's
\* location and rotation arguments are not given and default to True: the
\* location (0, 0, height/2) goes into the mesh with the scale.
shrub_sphere(height, width) ==
    LET sphere == primitive_ico_sphere_add(1000, <<0, 0, height \div 2>>)
        shrub == [sphere EXCEPT !.name = <<"S", "h", "r", "u", "b">>,
                                !.scale = <<width \div 2, width \div 2, height \div 2>>]
    IN  transform_apply(shrub, TRUE, TRUE)

\* The loop over mesh.vertices: offset = random.uniform(-0.1, 0.1) * height,
\* vert.co.z += offset * (1 - abs(vert.co.z) / (height / 2)).
\* Returns [verts, state].
RECURSIVE shrub_jitter(_, _, _)
shrub_jitter(verts, state, height) ==
    IF verts = << >>
    THEN [verts |-> << >>, state |-> state]
    ELSE LET s1 == random_next(state)
             offset == (random_uniform(s1, -100, 100) * height) \div 1000
             v == Head(verts)
             z == v[3] + (offset * (height \div 2 - Abs(v[3]))) \div (height \div 2)
             rest == shrub_jitter(Tail(verts), s1, height)
         IN  [verts |-> << <<v[1], v[2], fl(z)>> >> \o rest.verts, state |-> rest.state]

\* The width a call without width gets.
shrub_default_width(height) ==
    (height * 12) \div 10

\* Returns [obj, state].
create_shrub(state, height, width, seed) ==
    LET shrub == shrub_sphere(height, width)
        r == shrub_jitter(shrub.verts, random_seed(state, seed), height)
    IN  [obj |-> set_origin_to_base(with_data(shrub, r.verts)), state |-> r.state]
(***************************************************************************)
(* SpecRecipes: a generator process calling the recipes and                *)
(* randomize_vertices in any order.  The log keeps, for every call, its    *)
(* arguments and the vertex positions of the object it returned.           *)
(***************************************************************************)
Seeds == {0, 1}

\* The generator is seeded by the interpreter at start-up: any state.
StartStates == {0, 5, 11}

ShrubHeights == {600, 1000}

TreeHeights == {3000, 6000}

Amounts == {20}

InitRecipes ==
    /\ scene = << >>
    /\ actions = {}
    /\ call = NoCall
    /\ errors = << >>
    /\ log = << >>
    /\ result = "pending"
    /\ random_state \in StartStates
    /\ registry_writes = << >>

CreateShrub ==
    /\ Len(log) < MaxSteps
    /\ \E height \in ShrubHeights, seed \in Seeds :
          LET r == create_shrub(random_state, height, shrub_default_width(height), seed)
          IN  /\ scene' = Append(scene, r.obj)
              /\ random_state' = r.state
              /\ call' = [op |-> "create_shrub", height |-> height, seed |-> seed]
              /\ log' = Append(log, [ev |-> "create_shrub", height |-> height, seed |-> seed,
                                     verts |-> r.obj.verts])
    /\ UNCHANGED <<actions, errors, result, registry_writes>>

CreateSimplePine ==
    /\ Len(log) < MaxSteps
    /\ \E total_height \in TreeHeights, seed \in Seeds :
          LET r == create_simple_pine(random_state, total_height, 30,
                                      pine_default_base_radius(total_height), seed)
          IN  /\ scene' = Append(scene, r.obj)
              /\ random_state' = r.state
              /\ call' = [op |-> "create_simple_pine", height |-> total_height, seed |-> seed]
              /\ log' = Append(log, [ev |-> "create_simple_pine", height |-> total_height,
                                     seed |-> seed, verts |-> r.obj.verts])
    /\ UNCHANGED <<actions, errors, result, registry_writes>>

CreateSimpleDeciduous ==
    /\ Len(log) < MaxSteps
    /\ \E total_height \in TreeHeights, seed \in Seeds :
          LET r == create_simple_deciduous(random_state, total_height, 40,
                                           deciduous_default_crown_radius(total_height), seed)
          IN  /\ scene' = Append(scene, r.obj)
              /\ random_state' = r.state
              /\ call' = [op |-> "create_simple_deciduous", height |-> total_height,
                          seed |-> seed]
              /\ log' = Append(log, [ev |-> "create_simple_deciduous", height |-> total_height,
                                     seed |-> seed, verts |-> r.obj.verts])
    /\ UNCHANGED <<actions, errors, result, registry_writes>>

RandomizeVertices ==
    /\ Len(log) < MaxSteps
    /\ \E index \in DOMAIN scene, amount \in Amounts, seed \in Seeds :
          LET r == randomize_vertices(random_state, scene[index], amount, seed)
          IN  /\ scene' = [scene EXCEPT ![index] = r.obj]
              /\ random_state' = r.state
              /\ call' = [op |-> "randomize_vertices", index |-> index, amount |-> amount,
                          seed |-> seed]
              /\ log' = Append(log, [ev |-> "randomize_vertices", height |-> amount,
                                     seed |-> seed, verts |-> r.obj.verts])
    /\ UNCHANGED <<actions, errors, result, registry_writes>>

NextRecipes == CreateShrub \/ CreateSimplePine \/ CreateSimpleDeciduous \/ RandomizeVertices

SpecRecipes == InitRecipes /\ [][NextRecipes]_vars

(***************************************************************************)
(* Properties of the recipes (SpecRecipes).                                *)
(***************************************************************************)
Recipes == {"create_shrub", "create_simple_pine", "create_simple_deciduous"}

\* C17: two calls of one recipe with the same parameters and seed return
\* the same vertex positions, whatever was called before either of them.
C17_SameSeedSameVertices ==
    \A i, j \in DOMAIN log :
        (/\ log[i].ev \in Recipes /\ log[j].ev = log[i].ev
         /\ log[j].height = log[i].height /\ log[j].seed = log[i].seed)
            => log[j].verts = log[i].verts

\* The same shrub before and after a randomize_vertices that left the
\* generator elsewhere, and a shrub of another seed that differs.
C17_Witness ==
    /\ Len(log) = 3
    /\ log[1].ev = "create_shrub" /\ log[2].ev = "randomize_vertices"
    /\ log[3].ev = "create_shrub"
    /\ log[3].height = log[1].height /\ log[3].seed = log[1].seed
    /\ log[2].seed # log[1].seed
    /\ log[3].verts = log[1].verts
    /\ log[2].verts # log[1].verts

\* C18: a call of a recipe or of randomize_vertices leaves the state of the
\* process-wide generator of the random module as it found it.
C18_GlobalGeneratorUntouched ==
    [][(call'.op \in Recipes \cup {"randomize_vertices"} /\ Len(log') = Len(log) + 1)
          => random_state' = random_state]_vars

\* The vertical displacements create_shrub applied: the jittered Z less the
\* Z the vertex had, for the shrub of the last call.
ShrubBefore == shrub_sphere(call.height, shrub_default_width(call.height)).verts

ShrubOffsets ==
    LET jittered == shrub_jitter(ShrubBefore, random_seed(0, call.seed), call.height).verts
    IN  [k \in DOMAIN ShrubBefore |-> jittered[k][3] - ShrubBefore[k][3]]

\* C19: in create_shrub the displacement of a vertex at height z is at most
\* 0.1 * height * (1 - |z| / (height/2)) in magnitude, zero at the poles,
\* and the bounding-box height of the shrub is `height` for every seed.
C19_JitterKeepsHeight ==
    call.op = "create_shrub" =>
        LET shrub == scene[Len(scene)]
        IN  /\ \A k \in DOMAIN ShrubBefore :
                   1000 * (call.height \div 2) * Abs(ShrubOffsets[k])
                       <= 100 * call.height * (call.height \div 2 - Abs(ShrubBefore[k][3]))
            /\ shrub.bound_box.max[3] - shrub.bound_box.min[3] = call.height

(***************************************************************************)
(* asset_specs.py: the queries of the registry.  A key of the dict is a    *)
(* string; where the code looks into a string (startswith, split, the      *)
(* order sorted uses) the model reads it as its sequence of characters.    *)
(***************************************************************************)
\* The characters of the registered ids and of the arguments used below.
characters ==
    ("character.greenkeeper" :> <<"c", "h", "a", "r", "a", "c", "t", "e", "r", ".", "g", "r", "e", "e", "n", "k", "e", "e", "p", "e", "r">>)
 @@ ("character.employee" :> <<"c", "h", "a", "r", "a", "c", "t", "e", "r", ".", "e", "m", "p", "l", "o", "y", "e", "e">>)
 @@ ("character.golfer.male" :> <<"c", "h", "a", "r", "a", "c", "t", "e", "r", ".", "g", "o", "l", "f", "e", "r", ".", "m", "a", "l", "e">>)
 @@ ("character.golfer.female" :> <<"c", "h", "a", "r", "a", "c", "t", "e", "r", ".", "g", "o", "l", "f", "e", "r", ".", "f", "e", "m", "a", "l", "e">>)
 @@ ("tree.pine.small" :> <<"t", "r", "e", "e", ".", "p", "i", "n", "e", ".", "s", "m", "a", "l", "l">>)
 @@ ("tree.pine.medium" :> <<"t", "r", "e", "e", ".", "p", "i", "n", "e", ".", "m", "e", "d", "i", "u", "m">>)
 @@ ("tree.pine.large" :> <<"t", "r", "e", "e", ".", "p", "i", "n", "e", ".", "l", "a", "r", "g", "e">>)
 @@ ("tree.oak.small" :> <<"t", "r", "e", "e", ".", "o", "a", "k", ".", "s", "m", "a", "l", "l">>)
 @@ ("tree.oak.medium" :> <<"t", "r", "e", "e", ".", "o", "a", "k", ".", "m", "e", "d", "i", "u", "m">>)
 @@ ("tree.oak.large" :> <<"t", "r", "e", "e", ".", "o", "a", "k", ".", "l", "a", "r", "g", "e">>)
 @@ ("tree.palm" :> <<"t", "r", "e", "e", ".", "p", "a", "l", "m">>)
 @@ ("tree.willow" :> <<"t", "r", "e", "e", ".", "w", "i", "l", "l", "o", "w">>)
 @@ ("tree.cypress" :> <<"t", "r", "e", "e", ".", "c", "y", "p", "r", "e", "s", "s">>)
 @@ ("tree.maple.small" :> <<"t", "r", "e", "e", ".", "m", "a", "p", "l", "e", ".", "s", "m", "a", "l", "l">>)
 @@ ("tree.maple.medium" :> <<"t", "r", "e", "e", ".", "m", "a", "p", "l", "e", ".", "m", "e", "d", "i", "u", "m">>)
 @@ ("tree.birch" :> <<"t", "r", "e", "e", ".", "b", "i", "r", "c", "h">>)
 @@ ("tree.magnolia" :> <<"t", "r", "e", "e", ".", "m", "a", "g", "n", "o", "l", "i", "a">>)
 @@ ("tree.dogwood" :> <<"t", "r", "e", "e", ".", "d", "o", "g", "w", "o", "o", "d">>)
 @@ ("shrub.hedge" :> <<"s", "h", "r", "u", "b", ".", "h", "e", "d", "g", "e">>)
 @@ ("shrub.hedge.tall" :> <<"s", "h", "r", "u", "b", ".", "h", "e", "d", "g", "e", ".", "t", "a", "l", "l">>)
 @@ ("shrub.flowering.azalea" :> <<"s", "h", "r", "u", "b", ".", "f", "l", "o", "w", "e", "r", "i", "n", "g", ".", "a", "z", "a", "l", "e", "a">>)
 @@ ("shrub.flowering.rhododendron" :> <<"s", "h", "r", "u", "b", ".", "f", "l", "o", "w", "e", "r", "i", "n", "g", ".", "r", "h", "o", "d", "o", "d", "e", "n", "d", "r", "o", "n">>)
 @@ ("shrub.ornamental.grass" :> <<"s", "h", "r", "u", "b", ".", "o", "r", "n", "a", "m", "e", "n", "t", "a", "l", ".", "g", "r", "a", "s", "s">>)
 @@ ("shrub.juniper" :> <<"s", "h", "r", "u", "b", ".", "j", "u", "n", "i", "p", "e", "r">>)
 @@ ("flower.bed.mixed" :> <<"f", "l", "o", "w", "e", "r", ".", "b", "e", "d", ".", "m", "i", "x", "e", "d">>)
 @@ ("flower.bed.roses" :> <<"f", "l", "o", "w", "e", "r", ".", "b", "e", "d", ".", "r", "o", "s", "e", "s">>)
 @@ ("flower.planter" :> <<"f", "l", "o", "w", "e", "r", ".", "p", "l", "a", "n", "t", "e", "r">>)
 @@ ("equipment.mower.push" :> <<"e", "q", "u", "i", "p", "m", "e", "n", "t", ".", "m", "o", "w", "e", "r", ".", "p", "u", "s", "h">>)
 @@ ("equipment.spreader" :> <<"e", "q", "u", "i", "p", "m", "e", "n", "t", ".", "s", "p", "r", "e", "a", "d", "e", "r">>)
 @@ ("equipment.sprinkler.handheld" :> <<"e", "q", "u", "i", "p", "m", "e", "n", "t", ".", "s", "p", "r", "i", "n", "k", "l", "e", "r", ".", "h", "a", "n", "d", "h", "e", "l", "d">>)
 @@ ("equipment.rake" :> <<"e", "q", "u", "i", "p", "m", "e", "n", "t", ".", "r", "a", "k", "e">>)
 @@ ("equipment.aerator.manual" :> <<"e", "q", "u", "i", "p", "m", "e", "n", "t", ".", "a", "e", "r", "a", "t", "o", "r", ".", "m", "a", "n", "u", "a", "l">>)
 @@ ("equipment.trimmer" :> <<"e", "q", "u", "i", "p", "m", "e", "n", "t", ".", "t", "r", "i", "m", "m", "e", "r">>)
 @@ ("equipment.blower" :> <<"e", "q", "u", "i", "p", "m", "e", "n", "t", ".", "b", "l", "o", "w", "e", "r">>)
 @@ ("equipment.edger" :> <<"e", "q", "u", "i", "p", "m", "e", "n", "t", ".", "e", "d", "g", "e", "r">>)
 @@ ("vehicle.mower.riding" :> <<"v", "e", "h", "i", "c", "l", "e", ".", "m", "o", "w", "e", "r", ".", "r", "i", "d", "i", "n", "g">>)
 @@ ("vehicle.mower.fairway" :> <<"v", "e", "h", "i", "c", "l", "e", ".", "m", "o", "w", "e", "r", ".", "f", "a", "i", "r", "w", "a", "y">>)
 @@ ("vehicle.mower.greens" :> <<"v", "e", "h", "i", "c", "l", "e", ".", "m", "o", "w", "e", "r", ".", "g", "r", "e", "e", "n", "s">>)
 @@ ("vehicle.cart.golf" :> <<"v", "e", "h", "i", "c", "l", "e", ".", "c", "a", "r", "t", ".", "g", "o", "l", "f">>)
 @@ ("vehicle.cart.utility" :> <<"v", "e", "h", "i", "c", "l", "e", ".", "c", "a", "r", "t", ".", "u", "t", "i", "l", "i", "t", "y">>)
 @@ ("vehicle.tractor" :> <<"v", "e", "h", "i", "c", "l", "e", ".", "t", "r", "a", "c", "t", "o", "r">>)
 @@ ("vehicle.aerator.ride" :> <<"v", "e", "h", "i", "c", "l", "e", ".", "a", "e", "r", "a", "t", "o", "r", ".", "r", "i", "d", "e">>)
 @@ ("vehicle.sprayer" :> <<"v", "e", "h", "i", "c", "l", "e", ".", "s", "p", "r", "a", "y", "e", "r">>)
 @@ ("irrigation.pipe.straight" :> <<"i", "r", "r", "i", "g", "a", "t", "i", "o", "n", ".", "p", "i", "p", "e", ".", "s", "t", "r", "a", "i", "g", "h", "t">>)
 @@ ("irrigation.pipe.corner" :> <<"i", "r", "r", "i", "g", "a", "t", "i", "o", "n", ".", "p", "i", "p", "e", ".", "c", "o", "r", "n", "e", "r">>)
 @@ ("irrigation.pipe.tee" :> <<"i", "r", "r", "i", "g", "a", "t", "i", "o", "n", ".", "p", "i", "p", "e", ".", "t", "e", "e">>)
 @@ ("irrigation.pipe.cross" :> <<"i", "r", "r", "i", "g", "a", "t", "i", "o", "n", ".", "p", "i", "p", "e", ".", "c", "r", "o", "s", "s">>)
 @@ ("irrigation.sprinkler.popup" :> <<"i", "r", "r", "i", "g", "a", "t", "i", "o", "n", ".", "s", "p", "r", "i", "n", "k", "l", "e", "r", ".", "p", "o", "p", "u", "p">>)
 @@ ("irrigation.sprinkler.rotor" :> <<"i", "r", "r", "i", "g", "a", "t", "i", "o", "n", ".", "s", "p", "r", "i", "n", "k", "l", "e", "r", ".", "r", "o", "t", "o", "r">>)
 @@ ("irrigation.valve.box" :> <<"i", "r", "r", "i", "g", "a", "t", "i", "o", "n", ".", "v", "a", "l", "v", "e", ".", "b", "o", "x">>)
 @@ ("irrigation.water.source" :> <<"i", "r", "r", "i", "g", "a", "t", "i", "o", "n", ".", "w", "a", "t", "e", "r", ".", "s", "o", "u", "r", "c", "e">>)
 @@ ("irrigation.water.tank" :> <<"i", "r", "r", "i", "g", "a", "t", "i", "o", "n", ".", "w", "a", "t", "e", "r", ".", "t", "a", "n", "k">>)
 @@ ("course.flag" :> <<"c", "o", "u", "r", "s", "e", ".", "f", "l", "a", "g">>)
 @@ ("course.cup" :> <<"c", "o", "u", "r", "s", "e", ".", "c", "u", "p">>)
 @@ ("course.tee.marker.red" :> <<"c", "o", "u", "r", "s", "e", ".", "t", "e", "e", ".", "m", "a", "r", "k", "e", "r", ".", "r", "e", "d">>)
 @@ ("course.tee.marker.white" :> <<"c", "o", "u", "r", "s", "e", ".", "t", "e", "e", ".", "m", "a", "r", "k", "e", "r", ".", "w", "h", "i", "t", "e">>)
 @@ ("course.tee.marker.blue" :> <<"c", "o", "u", "r", "s", "e", ".", "t", "e", "e", ".", "m", "a", "r", "k", "e", "r", ".", "b", "l", "u", "e">>)
 @@ ("course.tee.marker.gold" :> <<"c", "o", "u", "r", "s", "e", ".", "t", "e", "e", ".", "m", "a", "r", "k", "e", "r", ".", "g", "o", "l", "d">>)
 @@ ("course.yardage.marker.100" :> <<"c", "o", "u", "r", "s", "e", ".", "y", "a", "r", "d", "a", "g", "e", ".", "m", "a", "r", "k", "e", "r", ".", "1", "0", "0">>)
 @@ ("course.yardage.marker.150" :> <<"c", "o", "u", "r", "s", "e", ".", "y", "a", "r", "d", "a", "g", "e", ".", "m", "a", "r", "k", "e", "r", ".", "1", "5", "0">>)
 @@ ("course.yardage.marker.200" :> <<"c", "o", "u", "r", "s", "e", ".", "y", "a", "r", "d", "a", "g", "e", ".", "m", "a", "r", "k", "e", "r", ".", "2", "0", "0">>)
 @@ ("course.ball" :> <<"c", "o", "u", "r", "s", "e", ".", "b", "a", "l", "l">>)
 @@ ("course.bunker.rake" :> <<"c", "o", "u", "r", "s", "e", ".", "b", "u", "n", "k", "e", "r", ".", "r", "a", "k", "e">>)
 @@ ("amenity.bench" :> <<"a", "m", "e", "n", "i", "t", "y", ".", "b", "e", "n", "c", "h">>)
 @@ ("amenity.trash.bin" :> <<"a", "m", "e", "n", "i", "t", "y", ".", "t", "r", "a", "s", "h", ".", "b", "i", "n">>)
 @@ ("amenity.ball.washer" :> <<"a", "m", "e", "n", "i", "t", "y", ".", "b", "a", "l", "l", ".", "w", "a", "s", "h", "e", "r">>)
 @@ ("amenity.drinking.fountain" :> <<"a", "m", "e", "n", "i", "t", "y", ".", "d", "r", "i", "n", "k", "i", "n", "g", ".", "f", "o", "u", "n", "t", "a", "i", "n">>)
 @@ ("amenity.cooler" :> <<"a", "m", "e", "n", "i", "t", "y", ".", "c", "o", "o", "l", "e", "r">>)
 @@ ("amenity.shelter.small" :> <<"a", "m", "e", "n", "i", "t", "y", ".", "s", "h", "e", "l", "t", "e", "r", ".", "s", "m", "a", "l", "l">>)
 @@ ("amenity.restroom" :> <<"a", "m", "e", "n", "i", "t", "y", ".", "r", "e", "s", "t", "r", "o", "o", "m">>)
 @@ ("amenity.snack.bar" :> <<"a", "m", "e", "n", "i", "t", "y", ".", "s", "n", "a", "c", "k", ".", "b", "a", "r">>)
 @@ ("building.clubhouse.small" :> <<"b", "u", "i", "l", "d", "i", "n", "g", ".", "c", "l", "u", "b", "h", "o", "u", "s", "e", ".", "s", "m", "a", "l", "l">>)
 @@ ("building.clubhouse.medium" :> <<"b", "u", "i", "l", "d", "i", "n", "g", ".", "c", "l", "u", "b", "h", "o", "u", "s", "e", ".", "m", "e", "d", "i", "u", "m">>)
 @@ ("building.clubhouse.large" :> <<"b", "u", "i", "l", "d", "i", "n", "g", ".", "c", "l", "u", "b", "h", "o", "u", "s", "e", ".", "l", "a", "r", "g", "e">>)
 @@ ("building.maintenance.shed" :> <<"b", "u", "i", "l", "d", "i", "n", "g", ".", "m", "a", "i", "n", "t", "e", "n", "a", "n", "c", "e", ".", "s", "h", "e", "d">>)
 @@ ("building.cart.barn" :> <<"b", "u", "i", "l", "d", "i", "n", "g", ".", "c", "a", "r", "t", ".", "b", "a", "r", "n">>)
 @@ ("building.pump.house" :> <<"b", "u", "i", "l", "d", "i", "n", "g", ".", "p", "u", "m", "p", ".", "h", "o", "u", "s", "e">>)
 @@ ("building.starter.hut" :> <<"b", "u", "i", "l", "d", "i", "n", "g", ".", "s", "t", "a", "r", "t", "e", "r", ".", "h", "u", "t">>)
 @@ ("decor.rock.small" :> <<"d", "e", "c", "o", "r", ".", "r", "o", "c", "k", ".", "s", "m", "a", "l", "l">>)
 @@ ("decor.rock.medium" :> <<"d", "e", "c", "o", "r", ".", "r", "o", "c", "k", ".", "m", "e", "d", "i", "u", "m">>)
 @@ ("decor.rock.large" :> <<"d", "e", "c", "o", "r", ".", "r", "o", "c", "k", ".", "l", "a", "r", "g", "e">>)
 @@ ("decor.rock.cluster" :> <<"d", "e", "c", "o", "r", ".", "r", "o", "c", "k", ".", "c", "l", "u", "s", "t", "e", "r">>)
 @@ ("decor.fountain" :> <<"d", "e", "c", "o", "r", ".", "f", "o", "u", "n", "t", "a", "i", "n">>)
 @@ ("decor.statue" :> <<"d", "e", "c", "o", "r", ".", "s", "t", "a", "t", "u", "e">>)
 @@ ("decor.sundial" :> <<"d", "e", "c", "o", "r", ".", "s", "u", "n", "d", "i", "a", "l">>)
 @@ ("fence.wood.section" :> <<"f", "e", "n", "c", "e", ".", "w", "o", "o", "d", ".", "s", "e", "c", "t", "i", "o", "n">>)
 @@ ("fence.wood.post" :> <<"f", "e", "n", "c", "e", ".", "w", "o", "o", "d", ".", "p", "o", "s", "t">>)
 @@ ("fence.white.section" :> <<"f", "e", "n", "c", "e", ".", "w", "h", "i", "t", "e", ".", "s", "e", "c", "t", "i", "o", "n">>)
 @@ ("fence.chain.section" :> <<"f", "e", "n", "c", "e", ".", "c", "h", "a", "i", "n", ".", "s", "e", "c", "t", "i", "o", "n">>)
 @@ ("fence.rope.post" :> <<"f", "e", "n", "c", "e", ".", "r", "o", "p", "e", ".", "p", "o", "s", "t">>)
 @@ ("bridge.wood.small" :> <<"b", "r", "i", "d", "g", "e", ".", "w", "o", "o", "d", ".", "s", "m", "a", "l", "l">>)
 @@ ("bridge.wood.medium" :> <<"b", "r", "i", "d", "g", "e", ".", "w", "o", "o", "d", ".", "m", "e", "d", "i", "u", "m">>)
 @@ ("bridge.stone" :> <<"b", "r", "i", "d", "g", "e", ".", "s", "t", "o", "n", "e">>)
 @@ ("path.sign.directional" :> <<"p", "a", "t", "h", ".", "s", "i", "g", "n", ".", "d", "i", "r", "e", "c", "t", "i", "o", "n", "a", "l">>)
 @@ ("path.sign.rules" :> <<"p", "a", "t", "h", ".", "s", "i", "g", "n", ".", "r", "u", "l", "e", "s">>)
 @@ ("water.fountain.aerator" :> <<"w", "a", "t", "e", "r", ".", "f", "o", "u", "n", "t", "a", "i", "n", ".", "a", "e", "r", "a", "t", "o", "r">>)
 @@ ("water.dock.small" :> <<"w", "a", "t", "e", "r", ".", "d", "o", "c", "k", ".", "s", "m", "a", "l", "l">>)
 @@ ("water.bulkhead.section" :> <<"w", "a", "t", "e", "r", ".", "b", "u", "l", "k", "h", "e", "a", "d", ".", "s", "e", "c", "t", "i", "o", "n">>)
 @@ ("wildlife.bird.bath" :> <<"w", "i", "l", "d", "l", "i", "f", "e", ".", "b", "i", "r", "d", ".", "b", "a", "t", "h">>)
 @@ ("wildlife.birdhouse" :> <<"w", "i", "l", "d", "l", "i", "f", "e", ".", "b", "i", "r", "d", "h", "o", "u", "s", "e">>)
 @@ ("wildlife.duck.decoy" :> <<"w", "i", "l", "d", "l", "i", "f", "e", ".", "d", "u", "c", "k", ".", "d", "e", "c", "o", "y">>)
 @@ ("tree.pine" :> <<"t", "r", "e", "e", ".", "p", "i", "n", "e">>)
 @@ ("" :> <<>>)
 @@ ("tree" :> <<"t", "r", "e", "e">>)
 @@ ("tre" :> <<"t", "r", "e">>)
 @@ ("course" :> <<"c", "o", "u", "r", "s", "e">>)
 @@ ("tree.pine.medium." :> <<"t", "r", "e", "e", ".", "p", "i", "n", "e", ".", "m", "e", "d", "i", "u", "m", ".">>)
 @@ ("character" :> <<"c", "h", "a", "r", "a", "c", "t", "e", "r">>)
 @@ ("shrub" :> <<"s", "h", "r", "u", "b">>)
 @@ ("equipment" :> <<"e", "q", "u", "i", "p", "m", "e", "n", "t">>)
 @@ ("irrigation" :> <<"i", "r", "r", "i", "g", "a", "t", "i", "o", "n">>)
 @@ ("prop" :> <<"p", "r", "o", "p">>)

\* ord(c) for the characters that occur in them.
ord ==
    ("." :> 46) @@ ("0" :> 48) @@ ("1" :> 49) @@ ("2" :> 50) @@ ("5" :> 53) @@ ("a" :> 97) @@ ("b" :> 98) @@ ("c" :> 99) @@ ("d" :> 100) @@ ("e" :> 101) @@ ("f" :> 102) @@ ("g" :> 103) @@ ("h" :> 104) @@ ("i" :> 105) @@ ("j" :> 106) @@ ("k" :> 107) @@ ("l" :> 108) @@ ("m" :> 109) @@ ("n" :> 110) @@ ("o" :> 111) @@ ("p" :> 112) @@ ("q" :> 113) @@ ("r" :> 114) @@ ("s" :> 115) @@ ("t" :> 116) @@ ("u" :> 117) @@ ("v" :> 118) @@ ("w" :> 119) @@ ("x" :> 120) @@ ("y" :> 121) @@ ("z" :> 122)

\* a < b for two strings: the first differing character decides, a proper
\* prefix is smaller.
RECURSIVE str_lt(_, _)
str_lt(a, b) ==
    IF b = << >> THEN FALSE
    ELSE IF a = << >> THEN TRUE
    ELSE IF Head(a) # Head(b) THEN ord[Head(a)] < ord[Head(b)]
    ELSE str_lt(Tail(a), Tail(b))

\* k.startswith(prefix)
startswith(k, prefix) ==
    /\ Len(prefix) <= Len(k)
    /\ SubSeq(k, 1, Len(prefix)) = prefix

\* key.split(".")[0]: the characters before the first dot.
RECURSIVE first_segment(_)
first_segment(key) ==
    IF key = << >> \/ Head(key) = "." THEN << >>
    ELSE << Head(key) >> \o first_segment(Tail(key))

\* sorted(...) of a collection of distinct strings, given by their characters.
RECURSIVE sorted(_)
sorted(S) ==
    IF S = {} THEN << >>
    ELSE LET least == CHOOSE a \in S : \A b \in S \ {a} : str_lt(a, b)
         IN  << least >> \o sorted(S \ {least})

\* ASSET_SPECS.keys()
registry_keys == DOMAIN ASSET_SPECS \cup DOMAIN registry_writes

list_assets_by_category(category) ==
    LET prefix == characters[category] \o << "." >>
    IN  sorted({ characters[k] : k \in { key \in registry_keys : startswith(characters[key], prefix) } })

list_all_categories ==
    sorted({ first_segment(characters[key]) : key \in registry_keys })

\* A mutation of get_spec_writes: an id that is looked up and missing is
\* registered, as ASSET_SPECS.setdefault(asset_id, None) would.
get_spec_writes_setdefault(writes, asset_id) ==
    IF asset_id \in DOMAIN ASSET_SPECS \cup DOMAIN writes
    THEN writes
    ELSE [k \in DOMAIN writes \cup {asset_id} |-> IF k = asset_id THEN None ELSE writes[k]]

\* What get_spec leaves in the dict: dict.get assigns nothing.
get_spec_writes(writes, asset_id) ==
    writes

(***************************************************************************)
(* SpecRegistry: a consumer calling the functions of asset_specs.py one    *)
(* after the other; log holds each call with what it returned.             *)
(***************************************************************************)
QueriedIds == {"tree.pine.medium", "course.ball", "tree.pine", ""}

QueriedCategories == {"tree", "tre", "course", "tree.pine", ""}

\* <<height, width>>: within the limits of tree.pine.medium, and outside both.
QueriedSizes == { <<5000, 2300>>, <<2500, 3000>> }

returned(op, args, ret) ==
    [op |-> op, args |-> args, ret |-> ret]

InitRegistry ==
    /\ scene = << >>
    /\ actions = {}
    /\ call = NoCall
    /\ errors = << >>
    /\ log = << >>
    /\ result = "pending"
    /\ random_state = 0
    /\ registry_writes = << >>

CallGetSpec ==
    /\ result = "pending"
    /\ Len(log) < MaxSteps
    /\ \E asset_id \in QueriedIds :
          /\ call' = [op |-> "get_spec", asset_id |-> asset_id]
          /\ log' = Append(log, returned("get_spec", << asset_id >>, get_spec(asset_id)))
          /\ registry_writes' = get_spec_writes(registry_writes, asset_id)
    /\ UNCHANGED <<scene, actions, errors, result, random_state>>

CallValidateDimensions ==
    /\ result = "pending"
    /\ Len(log) < MaxSteps
    /\ \E asset_id \in QueriedIds, size \in QueriedSizes :
          /\ call' = [op |-> "validate_dimensions", asset_id |-> asset_id,
                      height |-> size[1], width |-> size[2], depth |-> size[2]]
          /\ errors' = validate_dimensions(asset_id, size[1], size[2], size[2])
          /\ log' = Append(log, returned("validate_dimensions",
                                         << asset_id, size[1], size[2], size[2] >>,
                                         validate_dimensions(asset_id, size[1], size[2], size[2])))
          /\ registry_writes' = get_spec_writes(registry_writes, asset_id)
    /\ UNCHANGED <<scene, actions, result, random_state>>

CallListAssetsByCategory ==
    /\ result = "pending"
    /\ Len(log) < MaxSteps
    /\ \E category \in QueriedCategories :
          /\ call' = [op |-> "list_assets_by_category", category |-> category]
          /\ log' = Append(log, returned("list_assets_by_category", << category >>,
                                         list_assets_by_category(category)))
    /\ UNCHANGED <<scene, actions, errors, result, random_state, registry_writes>>

CallListAllCategories ==
    /\ result = "pending"
    /\ Len(log) < MaxSteps
    /\ call' = [op |-> "list_all_categories"]
    /\ log' = Append(log, returned("list_all_categories", << >>, list_all_categories))
    /\ UNCHANGED <<scene, actions, errors, result, random_state, registry_writes>>

\* The key of the dict with the given characters.
key_of(chars) ==
    CHOOSE key \in registry_keys : characters[key] = chars

\* for category in [...] of the --list branch of parse_args.
listed_categories ==
    << "character", "tree", "shrub", "equipment", "irrigation", "prop" >>

\* The lines printed for one category: nothing when no key starts with it,
\* else the category and, in sorted order, each id with its height_range.
list_category_lines(category) ==
    LET assets == { characters[k] : k \in { key \in registry_keys :
                        startswith(characters[key], characters[category]) } }
        ordered == sorted(assets)
    IN  IF assets = {}
        THEN << >>
        ELSE << [line |-> "category", category |-> characters[category]] >>
             \o [i \in DOMAIN ordered |->
                    [line |-> "asset", category |-> characters[category], asset_id |-> ordered[i],
                     height_range |-> get_spec(key_of(ordered[i])).height_range]]

RECURSIVE list_lines(_)
list_lines(categories) ==
    IF categories = << >>
    THEN << >>
    ELSE list_category_lines(Head(categories)) \o list_lines(Tail(categories))

\* export_glb.py run with --list: parse_args prints the list and exits with
\* status 0.
CallListMode ==
    /\ result = "pending"
    /\ Len(log) < MaxSteps
    /\ call' = [op |-> "parse_args", argv |-> << "--list" >>]
    /\ log' = Append(log, returned("parse_args", << "--list" >>, list_lines(listed_categories)))
    /\ result' = "exit_0"
    /\ UNCHANGED <<scene, actions, errors, random_state, registry_writes>>

NextRegistry ==
    \/ CallGetSpec \/ CallValidateDimensions \/ CallListAssetsByCategory \/ CallListAllCategories
    \/ CallListMode

SpecRegistry == InitRegistry /\ [][NextRegistry]_vars

(***************************************************************************)
(* Properties of the registry queries.                                     *)
(***************************************************************************)
\* C20: no call of get_spec, validate_dimensions, list_assets_by_category or
\* list_all_categories changes the dict ASSET_SPECS, a call of
\* validate_dimensions changes nothing else of the program either, and two
\* calls of validate_dimensions with the same arguments returned the same
\* violation list whatever was called between them.
C20_ValidationPure ==
    [][ /\ registry_writes' = registry_writes
        /\ call'.op = "validate_dimensions" => UNCHANGED <<scene, actions, random_state>>
        /\ \A i, j \in DOMAIN log' :
              (log'[i].op = "validate_dimensions" /\ log'[j].op = "validate_dimensions"
               /\ log'[i].args = log'[j].args)
              => log'[i].ret = log'[j].ret ]_vars

\* The same validation was asked twice with another call in between, and
\* once for an id that is not registered.
C20_Witness ==
    /\ Len(log) >= 3
    /\ log[1].op = "validate_dimensions"
    /\ log[2].op = "get_spec"
    /\ log[2].args = << "tree.pine" >>
    /\ log[3].op = "validate_dimensions"
    /\ log[3].args = log[1].args
    /\ log[1].args[1] = "tree.pine"

\* The registered ids whose first dot-delimited segment is the category.
ids_of_category(category) ==
    { characters[k] : k \in { key \in registry_keys : first_segment(characters[key]) = characters[category] } }

ascending(list) ==
    \A i \in 1..(Len(list) - 1) : str_lt(list[i], list[i + 1])

\* C21: every list returned by list_assets_by_category is strictly ascending
\* (sorted, no id twice) and holds exactly the registered ids whose first
\* dot-delimited segment equals the category asked for; every category that
\* list_all_categories returned has a non-empty list, and every registered
\* id is in the list of exactly one of them.
C21_ListIsTheCategory ==
    \A i \in DOMAIN log :
        /\ log[i].op = "list_assets_by_category" =>
              /\ ascending(log[i].ret)
              /\ Range(log[i].ret) = ids_of_category(log[i].args[1])
        /\ log[i].op = "list_all_categories" =>
              /\ \A c \in Range(log[i].ret) :
                    { k \in registry_keys : first_segment(characters[k]) = c } # {}
              /\ \A k \in registry_keys :
                    first_segment(characters[k]) \in Range(log[i].ret)

\* C22: in every state of a run every entry of the dict ASSET_SPECS has
\* 0 <= min <= max in its height_range, both footprint components >= 0 and
\* the origin base_center or center.
C22_RegistryIntegrity ==
    \A asset_id \in registry_keys :
        LET spec == get_spec(asset_id)
        IN  /\ spec # None
            /\ 0 <= spec.height_range[1]
            /\ spec.height_range[1] <= spec.height_range[2]
            /\ spec.footprint[1] >= 0
            /\ spec.footprint[2] >= 0
            /\ spec.origin \in {"base_center", "center"}

\* Three calls went by, the first a lookup of an id that is not registered
\* and the last a listing.
C22_Witness ==
    /\ Len(log) >= 3
    /\ log[1].op = "get_spec"
    /\ log[1].ret = None
    /\ log[3].op = "list_all_categories"

(***************************************************************************)
(* geometry.py: join_objects as it acts on the scene.  log holds the bpy   *)
(* calls the function made, in order.                                      *)
(***************************************************************************)
\* A mutation of join_objects_calls: the guard on the empty list is missing,
\* so the selection is cleared before objects[0] raises.
join_objects_calls_unguarded(objects, name) ==
    << [ev |-> "select_all", action |-> "DESELECT"] >>
    \o [k \in DOMAIN objects |-> [ev |-> "select_set", name |-> objects[k].name]]
    \o (IF objects = << >> THEN << >>
        ELSE << [ev |-> "set_active", name |-> objects[1].name], [ev |-> "join"] >>)
    \o (IF objects # << >> /\ name # << >> THEN << [ev |-> "rename", name |-> name] >> ELSE << >>)

\* The bpy calls of join_objects(objects, name).
join_objects_calls(objects, name) ==
    IF objects = << >>
    THEN << >>
    ELSE << [ev |-> "select_all", action |-> "DESELECT"] >>
         \o [k \in DOMAIN objects |-> [ev |-> "select_set", name |-> objects[k].name]]
         \o << [ev |-> "set_active", name |-> objects[1].name], [ev |-> "join"] >>
         \o (IF name # << >> THEN << [ev |-> "rename", name |-> name] >> ELSE << >>)

\* The scene after join_objects on the objects at the indices parts: the
\* first of them holds the joined mesh, the others are gone.
scene_after_join(scn, parts, name) ==
    IF parts = << >>
    THEN scn
    ELSE LET joined == join_objects([k \in DOMAIN parts |-> scn[parts[k]]], name)
             gone == Range(Tail(parts))
             kept[i \in 0..Len(scn)] ==
                 IF i = 0 THEN << >>
                 ELSE IF i \in gone THEN kept[i - 1]
                 ELSE IF i = parts[1] THEN Append(kept[i - 1], joined)
                 ELSE Append(kept[i - 1], scn[i])
         IN  kept[Len(scn)]

(***************************************************************************)
(* SpecJoin: join_objects on part lists drawn from a scene of meshes.      *)
(***************************************************************************)
MaxParts == 3

JoinNames == { << >>, <<"T">> }

\* Lists of distinct objects of the scene, the empty list among them.
PartLists(scn) ==
    { parts \in UNION { [1..n -> DOMAIN scn] : n \in 0..MaxParts } :
          \A i, j \in DOMAIN parts : i # j => parts[i] # parts[j] }

InitJoin ==
    /\ scene \in UNION { [1..n -> GeneratedObjects] : n \in 0..MaxParts }
    /\ actions = {}
    /\ call = NoCall
    /\ errors = << >>
    /\ log = << >>
    /\ result = "pending"
    /\ random_state = 0
    /\ registry_writes = << >>

JoinObjects ==
    /\ Len(log) < MaxSteps
    /\ \E parts \in PartLists(scene), name \in JoinNames :
          LET objects == [k \in DOMAIN parts |-> scene[parts[k]]]
          IN  /\ call' = [op |-> "join_objects", objects |-> objects, name |-> name]
              /\ log' = log \o join_objects_calls(objects, name)
              /\ scene' = scene_after_join(scene, parts, name)
              /\ result' = join_objects(objects, name)
    /\ UNCHANGED <<actions, errors, random_state, registry_writes>>

NextJoin == JoinObjects

SpecJoin == InitJoin /\ [][NextJoin]_vars

\* C23: join_objects on an empty list makes no bpy call and leaves every
\* object of the scene as it was, and what it returns is None.
C23_EmptyJoinGuarded ==
    [][ (call'.op = "join_objects" /\ call'.objects = << >>)
        => /\ log' = log
           /\ scene' = scene
           /\ result' = None ]_vars

\* join_objects returned None for the empty list on a scene that holds
\* meshes it could have joined.
C23_Witness ==
    /\ call.op = "join_objects"
    /\ call.objects = << >>
    /\ result = None
    /\ Len(scene) >= 2

(***************************************************************************)
(* SpecBounds: the two calculate_bounds functions called on the objects of *)
(* a scene; result holds what the call returned.                           *)
(***************************************************************************)
InitBounds ==
    /\ scene \in Scenes
    /\ actions = {}
    /\ call = NoCall
    /\ errors = << >>
    /\ log = << >>
    /\ result = "pending"
    /\ random_state = 0
    /\ registry_writes = << >>

\* export_glb.calculate_bounds(objects), on the whole scene or on the
\* objects get_exportable_objects keeps.
ExportGlbCalculateBounds ==
    /\ call = NoCall
    /\ \E objects \in {scene, get_exportable_objects} :
          /\ call' = [op |-> "export_glb.calculate_bounds", objects |-> objects]
          /\ result' = export_glb_calculate_bounds(objects)
    /\ UNCHANGED <<scene, actions, errors, log, random_state, registry_writes>>

\* context.calculate_bounds(obj) on an object of the scene.
ContextCalculateBounds ==
    /\ call = NoCall
    /\ \E index \in DOMAIN scene :
          /\ call' = [op |-> "context.calculate_bounds", objects |-> << scene[index] >>]
          /\ result' = context_calculate_bounds(scene[index])
    /\ UNCHANGED <<scene, actions, errors, log, random_state, registry_writes>>

NextBounds == ExportGlbCalculateBounds \/ ContextCalculateBounds

SpecBounds == InitBounds /\ [][NextBounds]_vars

\* C24: a call of either calculate_bounds on objects none of which is a
\* mesh returned None; and a box it returned has min <= max on every axis
\* and width, depth and height >= 0 and equal to max - min on X, Y and Z.
C24_BoundsOrNone ==
    call.op \in {"export_glb.calculate_bounds", "context.calculate_bounds"} =>
        /\ (\A i \in DOMAIN call.objects : call.objects[i].type # "MESH") => result = None
        /\ result # None =>
              /\ \A i \in 1..3 : result.min[i] <= result.max[i]
              /\ result.width >= 0 /\ result.depth >= 0 /\ result.height >= 0
              /\ result.width = result.max[1] - result.min[1]
              /\ result.depth = result.max[2] - result.min[2]
              /\ result.height = result.max[3] - result.min[3]

\* export_glb.calculate_bounds was given a non-empty list without a mesh.
C24_Witness ==
    /\ call.op = "export_glb.calculate_bounds"
    /\ call.objects # << >>
    /\ \A i \in DOMAIN call.objects : call.objects[i].type # "MESH"
    /\ result = None

\* The lines of the list that show the id.
lines_of(printed, asset_id) ==
    { i \in DOMAIN printed : printed[i].line = "asset" /\ printed[i].asset_id = characters[asset_id] }

\* C25: the list printed by --list shows every id of the registry on
\* exactly one line, under its first dot-delimited segment as the category
\* and with the height_range of its spec.
C25_ListShowsEveryId ==
    \A n \in DOMAIN log :
        log[n].op = "parse_args" =>
            \A asset_id \in registry_keys :
                /\ Cardinality(lines_of(log[n].ret, asset_id)) = 1
                /\ \A i \in lines_of(log[n].ret, asset_id) :
                      /\ log[n].ret[i].category = first_segment(characters[asset_id])
                      /\ log[n].ret[i].height_range = get_spec(asset_id).height_range

(***************************************************************************)
(* The origin rule for the convention center.                              *)
(***************************************************************************)
\* The mesh objects of the scene that stand on their origin (local minimum
\* Z = 0) and whose height is within the height_range of the spec.
BaseOriginMeshes(spec) ==
    { i \in MeshIndices :
          /\ scene[i].bound_box.min[3] = 0
          /\ scene[i].bound_box.max[3] >= spec.height_range[1]
          /\ scene[i].bound_box.max[3] <= spec.height_range[2] }

\* C26: when check_origin ran for a spec with origin center on a scene
\* holding a mesh of a height within the height_range whose origin is at
\* its base (local minimum Z = 0), it reported an origin violation.
C26_BaseOriginReported ==
    (call.op = "check_origin" /\ get_spec(call.asset_id).origin = "center"
     /\ BaseOriginMeshes(get_spec(call.asset_id)) # {})
    => errors # << >>

(***************************************************************************)
(* The two gates on a scene of several meshes.                             *)
(***************************************************************************)
\* What validate_dimensions says of the one world-space box spanning the
\* mesh objects of the scene, as export_glb.validate_asset measures it.
SpanningViolations ==
    LET meshes == SelectSeq(scene, LAMBDA obj : obj.type = "MESH")
        bounds == export_glb_calculate_bounds(meshes)
    IN  validate_dimensions(call.asset_id, bounds.height, bounds.width, bounds.depth)

\* C27: when export_asset validated a scene of several mesh objects (none
\* of them a REF_ helper) against a known id, its violation list has as many
\* messages as validate_dimensions gives for the single box spanning all of
\* them, and so is empty exactly when that box meets the spec.
C27_SameDimensionalVerdict ==
    (/\ call.op = "export_asset"
     /\ call.validate
     /\ KnownId
     /\ Cardinality(MeshIndices) >= 2
     /\ \A i \in DOMAIN scene : ~startswith_REF(scene[i].name))
    => Len(errors) = Len(SpanningViolations)

(***************************************************************************)
(* The size of the trees the recipes build.                                *)
(***************************************************************************)
\* C28: the tree create_simple_pine returned has its lowest point at local
\* Z = 0 and a bounding box as high as the total_height it was asked for.
C28_PineHeight ==
    \A i \in DOMAIN log :
        log[i].ev = "create_simple_pine" =>
            LET box == bbox_of(log[i].verts)
            IN  /\ box.min[3] = 0
                /\ box.max[3] - box.min[3] = log[i].height

(***************************************************************************)
(* generators/tree/pine_large/generate.py and oak_medium/generate.py.      *)
(* SpecGenerators: one run of a generator in a file that holds a scene.    *)
(***************************************************************************)
\* select_all(action='SELECT') and delete(): what cannot be selected stays.
\* The objects with hide_select are those create_reference_scene.py names
\* REF_.
scene_after_setup(scn) ==
    SelectSeq(scn, LAMBDA obj : startswith_REF(obj.name))

pine_large_PARAMS ==
    [total_height |-> 3500, trunk_ratio |-> 25, base_radius |-> 500, seed |-> 42]

oak_medium_PARAMS ==
    [total_height |-> 4500, trunk_ratio |-> 35, crown_radius |-> 550, seed |-> 123]

\* The objects of the file once the tree is built: those setup_asset_context
\* left, and the tree after the generator's own set_origin_to_base(tree).
generated_scene(scn, tree) ==
    scene_after_setup(scn) \o << set_origin_to_base(tree) >>

\* if success: ... else: sys.exit(1)
exit_status(export_result) ==
    IF export_result = "failure" THEN "exit_1" ELSE export_result

InitGenerators ==
    /\ scene \in Scenes
    /\ actions = {}
    /\ call = NoCall
    /\ errors = << >>
    /\ log = << >>
    /\ result = "pending"
    /\ random_state \in StartStates
    /\ registry_writes = << >>

GeneratePineLarge ==
    /\ result = "pending"
    /\ \E outcome \in EncoderOutcomes :
          LET p == pine_large_PARAMS
              r == create_simple_pine(random_state, p.total_height, p.trunk_ratio,
                                      p.base_radius, p.seed)
              e == export_asset_on(generated_scene(scene, r.obj),
                                   setup_asset_context("tree.pine.large"), TRUE, FALSE, outcome)
          IN  /\ call' = [op |-> "generate", asset_id |-> "tree.pine.large"]
              /\ scene' = generated_scene(scene, r.obj)
              /\ random_state' = r.state
              /\ errors' = e.errors
              /\ log' = e.log
              /\ result' = exit_status(e.result)
    /\ UNCHANGED <<actions, registry_writes>>

GenerateOakMedium ==
    /\ result = "pending"
    /\ \E outcome \in EncoderOutcomes :
          LET p == oak_medium_PARAMS
              r == create_simple_deciduous(random_state, p.total_height, p.trunk_ratio,
                                           p.crown_radius, p.seed)
              e == export_asset_on(generated_scene(scene, r.obj),
                                   setup_asset_context("tree.oak.medium"), TRUE, FALSE, outcome)
          IN  /\ call' = [op |-> "generate", asset_id |-> "tree.oak.medium"]
              /\ scene' = generated_scene(scene, r.obj)
              /\ random_state' = r.state
              /\ errors' = e.errors
              /\ log' = e.log
              /\ result' = exit_status(e.result)
    /\ UNCHANGED <<actions, registry_writes>>

NextGenerators == GeneratePineLarge \/ GenerateOakMedium

SpecGenerators == InitGenerators /\ [][NextGenerators]_vars

\* The height of the tree the generator built, the last object of the scene.
GeneratedHeight ==
    LET tree == scene[Len(scene)]
    IN  tree.bound_box.max[3] - tree.bound_box.min[3]

\* C29: a run of the pine_large or oak_medium generator built a tree whose
\* height is within the height_range of the generator's ASSET_ID, handed it
\* to the encoder and did not end with exit status 1.
C29_GeneratorMeetsItsSpec ==
    call.op = "generate" =>
        /\ GeneratedHeight >= get_spec(call.asset_id).height_range[1]
        /\ GeneratedHeight <= get_spec(call.asset_id).height_range[2]
        /\ \E i \in DOMAIN log : log[i].ev = "gltf"
        /\ result # "exit_1"

(***************************************************************************)
(* set_origin_to_base and the origin rule.                                 *)
(***************************************************************************)
\* C30: after every call of set_origin_to_base the local minimum Z of the
\* object is exactly 0 and check_origin, for a spec with origin base_center,
\* reports nothing for it; calls that follow on the same object are calls
\* like any other.
C30_BaseOriginPasses ==
    [][ call'.op = "set_origin_to_base" =>
            LET obj == scene'[call'.index]
            IN  /\ obj.bound_box.min[3] = 0
                /\ get_spec("tree.pine.medium").origin = "base_center"
                /\ check_origin(<< obj >>, get_spec("tree.pine.medium")).ok ]_vars

\* Three calls on the mesh whose bottom was 0.2 below its origin.
C30_Witness ==
    /\ Len(scene) = 1
    /\ Len(log) = 3
    /\ \A i \in DOMAIN log : log[i].ev = "set_origin_to_base"
    /\ scene[1].location = <<400, 100, -200>>

====
